---------------------------- MODULE Spec2Model ----------------------------
(***************************************************************************)
(* Model of the speech assessment engine of AI_Oral_Assistant              *)
(* (src/scoring): local feature normalisation and scoring, the remote      *)
(* evaluation exchange of XunfeiRater, and the fusion in SpeechRater.score. *)
(*                                                                         *)
(* Numbers.  The program computes with Python floats.  The model computes  *)
(* with exact rationals <<n, d>> (d > 0, lowest terms), so a value such as  *)
(* 0.15 is <<3, 20>>.  Binary rounding of float arithmetic (relative error  *)
(* around 1e-16) is not represented there; round(x, 2) is.  Where that     *)
(* rounding decides a result (SpecFloat) the model computes in IEEE 754    *)
(* binary64 instead.                                                       *)
(***************************************************************************)
EXTENDS Integers, Sequences, FiniteSets, TLC

VARIABLES
    \* ---- SpeechRater.score (one request) ----
    pc,                    \* position of SpeechRater.score
    audio_exists,          \* os.path.exists(audio_path)
    audio_loadable,        \* librosa.load succeeds on the file
    xunfei_enabled,        \* SpeechRater.xunfei_rater is not None
    delivery_features_raw, \* DeliveryScorer.calculate_all_features(...)
    language_features_raw, \* LanguageScorer.calculate_all_features(...)
    xunfei_result,         \* value returned by XunfeiRater.score
    score_result,          \* the published ScoreResult (None before)
    \* ---- XunfeiRater (one exchange) ----
    ws,                    \* state of the WebSocketApp connection
    result,                \* XunfeiRater.result
    error_msg,             \* XunfeiRater.error_msg
    inbound,               \* kinds of inbound events handled, in order
    \* ---- pure functions applied to drawn inputs ----
    normalized,            \* normalize_features of the two raw vectors
    renormalized,          \* normalize_features of the normalized vectors
    local_scores,          \* delivery, language and final local score
    audio,                 \* waveform, as blocks of hop_length samples
    segments,              \* detect_speech_segments(audio)
    pauses,                \* detect_silences(audio)
    text,                  \* transcript, as whitespace-separated tokens
    repfreq,               \* _calculate_repetition_frequency(words)
    ipc,                   \* _calculate_interruption_points(text)
    step,                  \* which pure function has been applied
    \* ---- calculate_all_features (one call) ----
    scorer,                \* "delivery" or "language": whose method runs
    n_samples,             \* len(audio) of the loaded waveform
    asr_confidence,        \* the asr_confidence argument (None when absent)
    analysis,              \* what the analysers find in this audio and text
    features,              \* the local dict features, as built so far
    at,                    \* the next statement of the method
    returned,              \* the dict the method returned (None before)
    \* ---- the sender worker started by XunfeiRater.on_open ----
    worker,                \* position of run(): unstarted, running, ...
    send_status,           \* run()'s local variable status
    source,                \* reads of the audio file that still return data
    sent,                  \* the frames ws.send has transmitted, in order
    \* ---- two requests through one XunfeiRater ----
    calls,                 \* per request: position, what it sent and got back
    self_audio_path,       \* XunfeiRater.audio_path
    self_text,             \* XunfeiRater.text
    \* ---- AudioAnalyzer.calculate_speech_chunks (one call) ----
    chunks,                \* its arguments and its result (None before)
    \* ---- the audio file read by the sender worker, byte by byte ----
    audio_file,            \* whether the path ends in .wav, and the bytes
    fp                     \* position of the file object fp

vars == <<pc, audio_exists, audio_loadable, xunfei_enabled,
          delivery_features_raw, language_features_raw, xunfei_result,
          score_result, ws, result, error_msg, inbound,
          normalized, renormalized, local_scores, audio, segments, pauses,
          text, repfreq, ipc, step,
          scorer, n_samples, asr_confidence, analysis, features, at,
          returned, worker, send_status, source, sent,
          calls, self_audio_path, self_text, chunks, audio_file, fp>>

raterVars == <<pc, audio_exists, audio_loadable, xunfei_enabled,
               delivery_features_raw, language_features_raw, xunfei_result,
               score_result, ws, result, error_msg, inbound>>

pureVars == <<normalized, renormalized, local_scores, audio, segments,
              pauses, text, repfreq, ipc, step>>

featVars == <<scorer, n_samples, asr_confidence, analysis, features, at,
              returned>>

workerVars == <<worker, send_status, source, sent>>

sharedVars == <<calls, self_audio_path, self_text>>

chunkVars == <<chunks>>

sendVars == <<audio_file, fp>>

lateVars == <<chunkVars, sendVars>>

\* The variables of the specifications SpecFeatures, SpecExchange, SpecShared
\* and of the later ones.
otherVars == <<featVars, workerVars, sharedVars, lateVars>>

\* Python's Optional: None is the empty sequence, a value x is <<x>>.
None == <<>>
Some(x) == <<x>>
IsNone(v) == v = <<>>
Get(v) == v[1]

\* e, with v evaluated first.  Operands are otherwise evaluated on demand,
\* each inside the evaluation of the one that needs it; evaluating the
\* intermediate values of a long computation one after the other keeps the
\* evaluation shallow and changes no value.
Then(v, e) == IF v = v THEN e ELSE e

-----------------------------------------------------------------------------
(* Exact rational arithmetic standing for Python float arithmetic.         *)

Abs(x) == IF x < 0 THEN -x ELSE x

RECURSIVE GCD(_, _)
GCD(a, b) == IF b = 0 THEN a ELSE GCD(b, a % b)

\* The rational n/d in lowest terms with a positive denominator.
R(n, d) ==
    LET s == IF d < 0 THEN -1 ELSE 1
        g == GCD(Abs(n), Abs(d))
    IN  <<(s * n) \div g, (s * d) \div g>>

Zero == <<0, 1>>
One == <<1, 1>>
Int2R(n) == <<n, 1>>

RAdd(x, y) == R(x[1] * y[2] + y[1] * x[2], x[2] * y[2])
RSub(x, y) == R(x[1] * y[2] - y[1] * x[2], x[2] * y[2])
RMul(x, y) == R(x[1] * y[1], x[2] * y[2])
RDiv(x, y) == R(x[1] * y[2], x[2] * y[1])
RLt(x, y) == x[1] * y[2] < y[1] * x[2]
RLe(x, y) == x[1] * y[2] <= y[1] * x[2]
RMin(x, y) == IF RLe(x, y) THEN x ELSE y
RMax(x, y) == IF RLe(x, y) THEN y ELSE x

\* floor of a rational.
RFloor(x) == x[1] \div x[2]

\* Python round(x, 2): to the nearest hundredth, ties to the even hundredth.
Round2(x) ==
    LET h == RMul(x, <<100, 1>>)
        f == RFloor(h)
        frac == RSub(h, <<f, 1>>)
        half == <<1, 2>>
        n == IF RLt(frac, half) THEN f
             ELSE IF RLt(half, frac) THEN f + 1
             ELSE IF f % 2 = 0 THEN f ELSE f + 1
    IN  R(n, 100)

\* acc plus the values of f at the keys order[lo], ..., order[hi], added in
\* this order (the range is split in halves to keep the evaluation shallow).
RECURSIVE RSumRange(_, _, _, _, _)
RSumRange(f, order, lo, hi, acc) ==
    IF lo > hi THEN acc
    ELSE IF lo = hi THEN RAdd(acc, f[order[lo]])
    ELSE LET mid == (lo + hi) \div 2
             first == RSumRange(f, order, lo, mid, acc)
         IN  Then(first, RSumRange(f, order, mid + 1, hi, first))

\* Sum of a rational-valued function over a sequence of keys.
RSum(f, order) == RSumRange(f, order, 1, Len(order), Zero)

-----------------------------------------------------------------------------
(* Natural numbers of any size, for the 53-bit significands of doubles:   *)
(* little-endian sequences of limbs below Radix without high zero limbs   *)
(* (0 is the empty sequence).                                              *)

Radix == 2^15

\* The operations below are written with quantifiers and function
\* constructors over the limb positions rather than as limb-by-limb
\* recursions, which keeps their evaluation shallow.

\* a without its high zero limbs.
NTrim(a) ==
    LET nonzero == {i \in 1..Len(a) : a[i] # 0}
    IN  IF nonzero = {} THEN <<>>
        ELSE SubSeq(a, 1, CHOOSE i \in nonzero : \A j \in nonzero : j <= i)

\* 0 <= n < 2^31
NFromInt(n) ==
    NTrim(<<n % Radix, (n \div Radix) % Radix, n \div (Radix * Radix)>>)

Limb(a, i) == IF 1 <= i /\ i <= Len(a) THEN a[i] ELSE 0

NMaxLen(a, b) == IF Len(a) < Len(b) THEN Len(b) ELSE Len(a)

\* a + b: position i receives a carry iff some lower position overflows and
\* every position between the two passes a carry on.
NAdd(a, b) ==
    LET s(i) == Limb(a, i) + Limb(b, i)
        carry(i) == IF \E j \in 1..(i - 1) :
                          /\ s(j) >= Radix
                          /\ \A k \in (j + 1)..(i - 1) : s(k) >= Radix - 1
                    THEN 1 ELSE 0
    IN  NTrim([i \in 1..(NMaxLen(a, b) + 1) |-> (s(i) + carry(i)) % Radix])

\* a - b for a >= b: position i lends iff some lower position is short and
\* no position between the two has anything to spare.
NSub(a, b) ==
    LET d(i) == Limb(a, i) - Limb(b, i)
        borrow(i) == IF \E j \in 1..(i - 1) :
                           /\ d(j) < 0
                           /\ \A k \in (j + 1)..(i - 1) : d(k) <= 0
                     THEN 1 ELSE 0
    IN  NTrim([i \in 1..Len(a) |-> (d(i) - borrow(i) + Radix) % Radix])

\* -1, 0 or 1 as a < b, a = b or a > b.
NCmp(a, b) ==
    IF Len(a) < Len(b) THEN -1
    ELSE IF Len(a) > Len(b) THEN 1
    ELSE LET differ == {i \in 1..Len(a) : a[i] # b[i]}
         IN  IF differ = {} THEN 0
             ELSE LET i == CHOOSE i \in differ : \A j \in differ : j <= i
                  IN  IF a[i] < b[i] THEN -1 ELSE 1

NShiftLimbs(a, n) == IF a = <<>> THEN <<>> ELSE [i \in 1..n |-> 0] \o a

\* a * k for 0 <= k <= Radix: the low halves of the limb products plus
\* their high halves one limb up.
NMulSmall(a, k) ==
    NAdd([i \in 1..Len(a) |-> (a[i] * k) % Radix],
         <<0>> \o [i \in 1..Len(a) |-> (a[i] * k) \div Radix])

\* acc + a * (b[j] + b[j+1] * Radix + ...) * Radix^(j-1)
RECURSIVE NMulFrom(_, _, _, _)
NMulNext(a, b, j, next) == Then(next, NMulFrom(a, b, j + 1, next))

NMulFrom(a, b, j, acc) ==
    IF j > Len(b) THEN acc
    ELSE NMulNext(a, b, j, NAdd(acc, NShiftLimbs(NMulSmall(a, b[j]), j - 1)))

NMul(a, b) == NMulFrom(a, b, 1, <<>>)

\* a * 2^k
NShl(a, k) ==
    LET s == k % 15
        low == 2^(15 - s)
    IN  NShiftLimbs(NTrim([i \in 1..(Len(a) + 1) |->
                               (Limb(a, i) % low) * 2^s
                                   + Limb(a, i - 1) \div low]),
                    k \div 15)

\* floor(a / 2^k)
NShr(a, k) ==
    LET s == k % 15
        w == k \div 15
    IN  IF w >= Len(a) THEN <<>>
        ELSE NTrim([i \in 1..(Len(a) - w) |->
                       Limb(a, i + w) \div 2^s
                           + (Limb(a, i + w + 1) % 2^s) * 2^(15 - s)])

\* Bit k of a (bit 0 is the lowest).
NBit(a, k) == (Limb(a, k \div 15 + 1) \div 2^(k % 15)) % 2

\* Some bit of a below bit k is set.
NLowNonzero(a, k) ==
    \/ \E i \in 1..(k \div 15) : Limb(a, i) # 0
    \/ Limb(a, k \div 15 + 1) % 2^(k % 15) # 0

\* The number of bits of n, 0 <= n < Radix.
BitLenSmall(n) == CHOOSE k \in 0..15 : n < 2^k /\ (k = 0 \/ 2^(k - 1) <= n)

NBitLen(a) ==
    IF a = <<>> THEN 0 ELSE 15 * (Len(a) - 1) + BitLenSmall(a[Len(a)])

\* Long division by v, whose top limb is at least Radix / 2, of a remainder
\* r < v * Radix.  The quotient of the top two limbs of r by the top limb of
\* v is the quotient limb or exceeds it by at most 2.
NDivEstimate(v, r) ==
    (Limb(r, Len(v) + 1) * Radix + Limb(r, Len(v))) \div v[Len(v)]

NDivDigit(v, r, estimate) ==
    CHOOSE c \in (estimate - 2)..estimate :
        /\ 0 <= c /\ c < Radix
        /\ NCmp(NMulSmall(v, c), r) <= 0
        /\ NCmp(NMulSmall(v, c + 1), r) > 0

NDivTake(v, r, q, digit) ==
    [q |-> <<digit>> \o q, r |-> NSub(r, NMulSmall(v, digit))]

NDivBring(v, r, q) == NDivTake(v, r, q, NDivDigit(v, r, NDivEstimate(v, r)))

\* One step: limb i of u is brought down and the next quotient limb found.
NDivStep(u, v, i, st) ==
    NDivBring(v, NAdd(NShiftLimbs(st.r, 1), NFromInt(u[i])), st.q)

\* The steps for limbs hi down to lo of u, split in halves.
RECURSIVE NDivLoop(_, _, _, _, _)
NDivLoop(u, v, hi, lo, st) ==
    IF hi < lo THEN st
    ELSE IF hi = lo THEN NDivStep(u, v, hi, st)
    ELSE LET mid == (hi + lo) \div 2
             first == NDivLoop(u, v, hi, mid + 1, st)
         IN  Then(first, NDivLoop(u, v, mid, lo, first))

NDivResult(end, shift) == [q |-> NTrim(end.q), r |-> NShr(end.r, shift)]

NDivShifted(u, v, shift) ==
    NDivResult(NDivLoop(u, v, Len(u), 1, [q |-> <<>>, r |-> <<>>]), shift)

NDivBy(a, b, shift) == NDivShifted(NShl(a, shift), NShl(b, shift), shift)

\* [q, r] with a = q * b + r and r < b, for b > 0.
NDivMod(a, b) == NDivBy(a, b, 15 - BitLenSmall(b[Len(b)]))

-----------------------------------------------------------------------------
(* Python floats as IEEE 754 binary64, for the places where the rounding   *)
(* of float arithmetic decides the outcome.  Non-negative finite values:   *)
(* [m, e] stands for m * 2^e with 2^52 <= m < 2^53, and zero is [<<>>, 0]. *)
(* Every operation returns the exact result rounded to nearest, ties to    *)
(* even; exponents stay far from the overflow and subnormal ranges.        *)

FZero == [m |-> <<>>, e |-> 0]

\* q + d for a fraction 0 <= d < 1 rounded to the nearest integer, ties to
\* even: guard is the first bit of d, rest tells whether a later one is set.
NRoundUp(q, guard, rest) ==
    IF guard /\ (rest \/ NBit(q, 0) = 1) THEN NAdd(q, <<1>>) ELSE q

\* q * 2^e for 2^52 <= q <= 2^53
FNormal(q, e) ==
    IF NBitLen(q) = 54 THEN [m |-> NShr(q, 1), e |-> e + 1]
    ELSE [m |-> q, e |-> e]

FCut(M, E, sticky, k) ==
    FNormal(NRoundUp(NShr(M, k), NBit(M, k - 1) = 1,
                     sticky \/ NLowNonzero(M, k - 1)),
            E + k)

FRoundLen(M, E, sticky, L) ==
    IF L <= 53 THEN [m |-> NShl(M, 53 - L), e |-> E - (53 - L)]
    ELSE FCut(M, E, sticky, L - 53)

\* (M + d) * 2^E with 0 <= d < 1 (d > 0 iff sticky) rounded to nearest, ties
\* to even.  M has more than 54 bits whenever sticky.
FRound(M, E, sticky) ==
    IF M = <<>> THEN FZero ELSE FRoundLen(M, E, sticky, NBitLen(M))

FMinExp(x, y) == IF x.e < y.e THEN x.e ELSE y.e

FAddAt(x, y, e) ==
    FRound(NAdd(NShl(x.m, x.e - e), NShl(y.m, y.e - e)), e, FALSE)

FAdd(x, y) ==
    IF x.m = <<>> THEN y
    ELSE IF y.m = <<>> THEN x
    ELSE FAddAt(x, y, FMinExp(x, y))

FSubAt(x, y, e) ==
    FRound(NSub(NShl(x.m, x.e - e), NShl(y.m, y.e - e)), e, FALSE)

\* x - y for x >= y
FSub(x, y) == IF y.m = <<>> THEN x ELSE FSubAt(x, y, FMinExp(x, y))

FMul(x, y) ==
    IF x.m = <<>> \/ y.m = <<>> THEN FZero
    ELSE FRound(NMul(x.m, y.m), x.e + y.e, FALSE)

FDivRound(qr, e) == FRound(qr.q, e, qr.r # <<>>)

\* x / y for y > 0
FDiv(x, y) ==
    IF x.m = <<>> THEN FZero
    ELSE FDivRound(NDivMod(NShl(x.m, 56), y.m), x.e - 56 - y.e)

FLe(x, y) ==
    IF x.m = <<>> THEN TRUE
    ELSE IF y.m = <<>> THEN FALSE
    ELSE IF x.e # y.e THEN x.e < y.e
    ELSE NCmp(x.m, y.m) <= 0

\* Python min(x, y) and max(x, y): the first argument unless the second is
\* strictly smaller (larger).
FMin(x, y) == IF FLe(x, y) THEN x ELSE y
FMax(x, y) == IF FLe(y, x) THEN x ELSE y

FromNat(a) == FRound(a, 0, FALSE)
FromInt(n) == FromNat(NFromInt(n))

\* The double a decimal literal n/d denotes: the one nearest to n/d.
FromDecimal(n, d) == FDiv(FromInt(n), FromInt(d))

\* T * 2^e rounded to the nearest integer, ties to even.
NRoundScaled(T, e) ==
    IF e >= 0 THEN NShl(T, e)
    ELSE NRoundUp(NShr(T, -e), NBit(T, -e - 1) = 1, NLowNonzero(T, -e - 1))

\* Python round(x, 2): the exact value of x rounded to hundredths, ties to
\* even, then the double nearest to that decimal.
FRound2(x) ==
    IF x.m = <<>> THEN FZero
    ELSE FDiv(FromNat(NRoundScaled(NMulSmall(x.m, 100), x.e)), FromInt(100))

FOne == FromInt(1)

\* The double nearest to the non-negative rational x.
FromR(x) == FromDecimal(x[1], x[2])

-----------------------------------------------------------------------------
(* Configuration: src/scoring/config.py                                    *)

DeliveryKeys == {"stretimemean", "wpsecutt", "wdpchk", "wdpchkmeandev",
                 "conftimeavg", "repfreq", "silpwd", "ipc", "stresyllmdev",
                 "L6", "longpfreq", "dpsec"}

LanguageKeys == {"types", "poscvamax", "logfreq", "lmscore", "tpsec", "cvamax"}

\* The keys of the weight tables in dict order.
DeliveryWeightOrder ==
    <<"stretimemean", "wpsecutt", "wdpchk", "wdpchkmeandev", "conftimeavg",
      "repfreq", "silpwd", "ipc", "stresyllmdev", "L6", "longpfreq", "dpsec">>

LanguageWeightOrder ==
    <<"types", "poscvamax", "logfreq", "lmscore", "tpsec", "cvamax">>

\* A weight table in which wpsecutt weighs 0.25 instead of 0.15.
DELIVERY_WEIGHTS_Heavy ==
    [k \in DeliveryKeys |->
        CASE k = "stretimemean"  -> R(15, 100)
          [] k = "wpsecutt"      -> R(25, 100)
          [] k = "wdpchk"        -> R(13, 100)
          [] k = "wdpchkmeandev" -> R(13, 100)
          [] k = "conftimeavg"   -> R(12, 100)
          [] k = "repfreq"       -> R(8, 100)
          [] k = "silpwd"        -> R(6, 100)
          [] k = "ipc"           -> R(6, 100)
          [] k = "stresyllmdev"  -> R(5, 100)
          [] k = "L6"            -> R(3, 100)
          [] k = "longpfreq"     -> R(3, 100)
          [] k = "dpsec"         -> R(1, 100)]

DELIVERY_WEIGHTS ==
    [k \in DeliveryKeys |->
        CASE k = "stretimemean"  -> R(15, 100)
          [] k = "wpsecutt"      -> R(15, 100)
          [] k = "wdpchk"        -> R(13, 100)
          [] k = "wdpchkmeandev" -> R(13, 100)
          [] k = "conftimeavg"   -> R(12, 100)
          [] k = "repfreq"       -> R(8, 100)
          [] k = "silpwd"        -> R(6, 100)
          [] k = "ipc"           -> R(6, 100)
          [] k = "stresyllmdev"  -> R(5, 100)
          [] k = "L6"            -> R(3, 100)
          [] k = "longpfreq"     -> R(3, 100)
          [] k = "dpsec"         -> R(1, 100)]

LANGUAGE_WEIGHTS ==
    [k \in LanguageKeys |->
        CASE k = "types"     -> R(35, 100)
          [] k = "poscvamax" -> R(18, 100)
          [] k = "logfreq"   -> R(15, 100)
          [] k = "lmscore"   -> R(11, 100)
          [] k = "tpsec"     -> R(11, 100)
          [] k = "cvamax"    -> R(10, 100)]

\* SCORE_CONFIG
max_score == R(4, 1)
min_score == R(0, 1)
delivery_weight == R(1, 2)
language_weight == R(1, 2)

\* A fusion table with the two weights exchanged.
SCORING_WEIGHTS_Swapped ==
    [local_algorithm |-> R(6, 10), large_model |-> R(4, 10)]

SCORING_WEIGHTS ==
    [local_algorithm |-> R(4, 10), large_model |-> R(6, 10)]

-----------------------------------------------------------------------------
(* DeliveryScorer: src/scoring/delivery_scorer.py                          *)

DeliveryMaxValues ==
    [k \in DeliveryKeys |->
        CASE k = "wpsecutt"      -> R(4, 1)
          [] k = "wdpchk"        -> R(20, 1)
          [] k = "wdpchkmeandev" -> R(10, 1)
          [] k = "conftimeavg"   -> R(1, 1)
          [] k = "repfreq"       -> R(2, 10)
          [] k = "silpwd"        -> R(10, 1)
          [] k = "ipc"           -> R(3, 10)
          [] k = "stretimemean"  -> R(2, 1)
          [] k = "stresyllmdev"  -> R(1, 1)
          [] k = "L6"            -> R(1, 1)
          [] k = "longpfreq"     -> R(5, 1)
          [] k = "dpsec"         -> R(2, 1)]

\* max_values.get(key, 1.0)
DeliveryMaxOf(key) ==
    IF key \in DOMAIN DeliveryMaxValues THEN DeliveryMaxValues[key] ELSE One

\* The loop body of normalize_features: one value against its ceiling.
NormalizeValue(value, max_val) ==
    IF RLt(Zero, max_val) THEN RMin(RDiv(value, max_val), One) ELSE Zero

DeliveryNormalize(f) ==
    [key \in DOMAIN f |-> NormalizeValue(f[key], DeliveryMaxOf(key))]

\* The features whose value is inverted (1 - x) before weighting.
LowerIsBetter == {"repfreq", "silpwd", "ipc", "longpfreq", "dpsec",
                  "wdpchkmeandev", "stresyllmdev"}

\* features.get(feature_name, 0.0)
GetOrZero(f, key) == IF key \in DOMAIN f THEN f[key] ELSE Zero

\* Line 219: feature_value * weight, feature_value being 1 - value for the
\* lower-is-better features.
DeliveryTerm(f, feature_name) ==
    RMul(IF feature_name \in LowerIsBetter
         THEN RSub(One, GetOrZero(f, feature_name))
         ELSE GetOrZero(f, feature_name),
         DELIVERY_WEIGHTS[feature_name])

\* The iterations lo..hi of the loop over self.weights.items() in order,
\* score being the running sum (the range is split in halves to keep the
\* evaluation shallow).
RECURSIVE DeliveryScoreLoop(_, _, _, _)
DeliveryScoreLoop(f, lo, hi, score) ==
    IF lo > hi THEN score
    ELSE IF lo = hi
    THEN RAdd(score, DeliveryTerm(f, DeliveryWeightOrder[lo]))
    ELSE LET mid == (lo + hi) \div 2
             first == DeliveryScoreLoop(f, lo, mid, score)
         IN  Then(first, DeliveryScoreLoop(f, mid + 1, hi, first))

calculate_delivery_score(f) ==
    DeliveryScoreLoop(f, 1, Len(DeliveryWeightOrder), Zero)

-----------------------------------------------------------------------------
(* LanguageScorer: src/scoring/language_scorer.py                          *)

\* A ceiling table in which logfreq is divided by 2.
LanguageMaxValues_Halved ==
    [k \in LanguageKeys |->
        CASE k = "types"     -> R(8, 1)
          [] k = "tpsec"     -> R(2, 1)
          [] k = "poscvamax" -> R(1, 1)
          [] k = "logfreq"   -> R(2, 1)
          [] k = "lmscore"   -> R(1, 1)
          [] k = "cvamax"    -> R(1, 1)]

LanguageMaxValues ==
    [k \in LanguageKeys |->
        CASE k = "types"     -> R(8, 1)
          [] k = "tpsec"     -> R(2, 1)
          [] k = "poscvamax" -> R(1, 1)
          [] k = "logfreq"   -> R(1, 1)
          [] k = "lmscore"   -> R(1, 1)
          [] k = "cvamax"    -> R(1, 1)]

LanguageMaxOf(key) ==
    IF key \in DOMAIN LanguageMaxValues THEN LanguageMaxValues[key] ELSE One

LanguageNormalize(f) ==
    [key \in DOMAIN f |-> NormalizeValue(f[key], LanguageMaxOf(key))]

LanguageTerm(f, feature_name) ==
    RMul(GetOrZero(f, feature_name), LANGUAGE_WEIGHTS[feature_name])

RECURSIVE LanguageScoreLoop(_, _, _, _)
LanguageScoreLoop(f, lo, hi, score) ==
    IF lo > hi THEN score
    ELSE IF lo = hi
    THEN RAdd(score, LanguageTerm(f, LanguageWeightOrder[lo]))
    ELSE LET mid == (lo + hi) \div 2
             first == LanguageScoreLoop(f, lo, mid, score)
         IN  Then(first, LanguageScoreLoop(f, mid + 1, hi, first))

calculate_language_score(f) ==
    LanguageScoreLoop(f, 1, Len(LanguageWeightOrder), Zero)

-----------------------------------------------------------------------------
(* ScoreCalculator: src/scoring/score_calculator.py                        *)

calculate_final_score(delivery_score, language_score) ==
    LET combined_score == RAdd(RMul(delivery_score, delivery_weight),
                               RMul(language_score, language_weight))
        final_score == RMul(combined_score, max_score)
        clamped == RMax(min_score, RMin(max_score, final_score))
    IN  Then(clamped, Round2(clamped))

-----------------------------------------------------------------------------
(* The local scoring pipeline in binary64: the same code as above, with    *)
(* every float operation rounded as the interpreter rounds it.             *)

\* A feature vector of rationals as the doubles the program holds.
AsDoubles(f) == [key \in DOMAIN f |-> FromR(f[key])]

\* The loop body of normalize_features: min(value / max_val, 1.0).
NormalizeValue64(value, max_val) ==
    IF ~FLe(max_val, FZero) THEN FMin(FDiv(value, max_val), FOne) ELSE FZero

DeliveryNormalize64(f) ==
    [key \in DOMAIN f |-> NormalizeValue64(f[key], FromR(DeliveryMaxOf(key)))]

LanguageNormalize64(f) ==
    [key \in DOMAIN f |-> NormalizeValue64(f[key], FromR(LanguageMaxOf(key)))]

\* features.get(feature_name, 0.0)
GetOrZero64(f, key) == IF key \in DOMAIN f THEN f[key] ELSE FZero

\* Line 219: feature_value * weight, feature_value being 1 - value for the
\* lower-is-better features.
DeliveryTerm64(f, weights, feature_name) ==
    FMul(IF feature_name \in LowerIsBetter
         THEN FSub(FOne, GetOrZero64(f, feature_name))
         ELSE GetOrZero64(f, feature_name),
         weights[feature_name])

\* calculate_delivery_score: the iterations lo..hi of the loop over
\* self.weights.items() in order, score being the running sum (the range is
\* split in halves to keep the evaluation shallow).
RECURSIVE DeliveryScoreLoop64(_, _, _, _, _)
DeliveryScoreLoop64(f, weights, lo, hi, score) ==
    IF lo > hi THEN score
    ELSE IF lo = hi
    THEN FAdd(score, DeliveryTerm64(f, weights, DeliveryWeightOrder[lo]))
    ELSE LET mid == (lo + hi) \div 2
             first == DeliveryScoreLoop64(f, weights, lo, mid, score)
         IN  Then(first, DeliveryScoreLoop64(f, weights, mid + 1, hi, first))

\* self.weights holds the doubles the literals of DELIVERY_WEIGHTS denote.
DeliveryScore64(f, weights) ==
    Then(weights,
         DeliveryScoreLoop64(f, weights, 1, Len(DeliveryWeightOrder), FZero))

calculate_delivery_score64(f) == DeliveryScore64(f, AsDoubles(DELIVERY_WEIGHTS))

LanguageTerm64(f, weights, feature_name) ==
    FMul(GetOrZero64(f, feature_name), weights[feature_name])

RECURSIVE LanguageScoreLoop64(_, _, _, _, _)
LanguageScoreLoop64(f, weights, lo, hi, score) ==
    IF lo > hi THEN score
    ELSE IF lo = hi
    THEN FAdd(score, LanguageTerm64(f, weights, LanguageWeightOrder[lo]))
    ELSE LET mid == (lo + hi) \div 2
             first == LanguageScoreLoop64(f, weights, lo, mid, score)
         IN  Then(first, LanguageScoreLoop64(f, weights, mid + 1, hi, first))

LanguageScore64(f, weights) ==
    Then(weights,
         LanguageScoreLoop64(f, weights, 1, Len(LanguageWeightOrder), FZero))

calculate_language_score64(f) == LanguageScore64(f, AsDoubles(LANGUAGE_WEIGHTS))

\* Lines 41 and 43: max(min_score, min(max_score, final_score)), rounded.
ClampAndRound64(final_score) ==
    FRound2(FMax(FromR(min_score), FMin(FromR(max_score), final_score)))

\* Lines 34-38: (delivery x delivery_weight + language x language_weight)
\* x max_score, then clamped and rounded.
calculate_final_score64(delivery_score, language_score) ==
    ClampAndRound64(
        FMul(FAdd(FMul(delivery_score, FromR(delivery_weight)),
                  FMul(language_score, FromR(language_weight))),
             FromR(max_score)))

-----------------------------------------------------------------------------
(* XunfeiRater: src/scoring/xunfei_rater.py                                *)
(*                                                                         *)
(* The decoded XML payload of a final message is                           *)
(*   [well_formed |-> BOOLEAN, nodes |-> sequence of elements]             *)
(* with the elements in document order (root.iter()).  An element is       *)
(*   [is_rejected |-> BOOLEAN, attrib |-> function from attribute names]   *)
(* and a score attribute's value is [num |-> BOOLEAN, val |-> rational]:   *)
(* num is FALSE for text on which float() raises ValueError.               *)

\* The per-dimension attributes, in the order on_message reads them.
DimAttrs == <<"accuracy_score", "fluency_score", "integrity_score",
              "standard_score">>

\* Python truthiness of error_msg (None and "" are falsy).
Truthy(msg) == ~IsNone(msg) /\ Get(msg) # ""

\* Lines 140-153: some element carries is_rejected="true".
IsRejected(xml) ==
    xml.well_formed /\ \E i \in 1..Len(xml.nodes) : xml.nodes[i].is_rejected

\* A search that keeps the last element exposing total_score.
ScoreNodeIndex_Last(xml) ==
    LET has == {i \in 1..Len(xml.nodes) :
                    "total_score" \in DOMAIN xml.nodes[i].attrib}
    IN  IF has = {} THEN 0 ELSE CHOOSE i \in has : \A j \in has : j <= i

\* Lines 156-160: index of the first element exposing total_score, 0 if none.
ScoreNodeIndex(xml) ==
    LET has == {i \in 1..Len(xml.nodes) :
                    "total_score" \in DOMAIN xml.nodes[i].attrib}
    IN  IF has = {} THEN 0 ELSE CHOOSE i \in has : \A j \in has : i <= j

\* Lines 170-172: the loop over the per-dimension attributes; float() raising
\* on one of them ends the extraction with what was stored so far.
RECURSIVE ExtractDims(_, _, _)
ExtractDims(r, attrib, i) ==
    IF i > Len(DimAttrs) THEN r
    ELSE LET a == DimAttrs[i]
         IN  IF a \notin DOMAIN attrib THEN ExtractDims(r, attrib, i + 1)
             ELSE IF ~attrib[a].num THEN r
             ELSE ExtractDims((a :> attrib[a].val) @@ r, attrib, i + 1)

\* Lines 131-174: the dictionary left in self.result by a final message.
ParsedResult(xml) ==
    LET base == ("raw_xml" :> xml)
        i == ScoreNodeIndex(xml)
    IN  IF ~xml.well_formed \/ i = 0 THEN base
        ELSE LET attrib == xml.nodes[i].attrib
                 t == attrib["total_score"]
             IN  IF ~t.num THEN base
                 ELSE ExtractDims(
                        ("total_score" :> t.val)
                        @@ ("converted_score" :>
                              RMul(RDiv(t.val, R(5, 1)), R(4, 1)))
                        @@ base,
                        attrib, 1)

\* A return statement that ignores the recorded error.
ScoreReturn_IgnoringError(err, res) == res

\* Lines 98-102: what XunfeiRater.score returns once run_forever is over.
ScoreReturn(err, res) == IF Truthy(err) THEN None ELSE res

\* A handler that records a non-zero code and leaves the connection open.
AfterErrorCode_StaysOpen(m) == [error_msg |-> Some(m.message), ws |-> "open"]

\* Lines 108-112: error_msg and the connection after a message whose code is
\* not 0 (ws.close() before the handler returns).
AfterErrorCode(m) == [error_msg |-> Some(m.message), ws |-> "closed"]

\* A handler that does not record a rejection.
RejectionRecord_Unrecorded(xml, old) == old

\* Lines 140-153: error_msg after the scan for is_rejected="true".
RejectionRecord(xml, old) == IF IsRejected(xml) THEN Some("Audio Rejected: No valid speech detected") ELSE old

\* An error handler that drops the error.
OnErrorRecord_Dropped(old, error) == old

\* Line 185: the value on_error leaves in error_msg.
OnErrorRecord(old, error) == Some(error)

-----------------------------------------------------------------------------
(* SpeechRater.score, lines 162-210: local score and fusion                *)

HasTotal(xr) == ~IsNone(xr) /\ "total_score" \in DOMAIN Get(xr)

\* Lines 172-175
XunfeiScore(xr) ==
    IF "converted_score" \in DOMAIN Get(xr) THEN Get(xr)["converted_score"]
    ELSE RMul(RDiv(Get(xr)["total_score"], R(5, 1)), R(4, 1))

\* local x local_algorithm + remote x large_model
Mix(local, remote) ==
    RAdd(RMul(local, SCORING_WEIGHTS.local_algorithm),
         RMul(remote, SCORING_WEIGHTS.large_model))

\* A fusion that replaces the delivery score whenever a total is present.
FusedDelivery_Always(d, xr) ==
    IF HasTotal(xr)
    THEN Mix(d, IF "fluency_score" \in DOMAIN Get(xr)
                THEN RDiv(Get(xr)["fluency_score"], R(5, 1)) ELSE Zero)
    ELSE d

\* Lines 178-181
FusedDelivery(d, xr) ==
    IF HasTotal(xr) /\ "fluency_score" \in DOMAIN Get(xr)
    THEN Mix(d, RDiv(Get(xr)["fluency_score"], R(5, 1)))
    ELSE d

\* Lines 183-185
FusedLanguage(l, xr) ==
    IF HasTotal(xr) /\ "accuracy_score" \in DOMAIN Get(xr)
    THEN Mix(l, RDiv(Get(xr)["accuracy_score"], R(5, 1)))
    ELSE l

\* Lines 167, 188-189
FusedFinal(local_score, xr) ==
    IF HasTotal(xr) THEN Mix(local_score, XunfeiScore(xr)) ELSE local_score

\* Lines 151-152, 159-160, 164-166 on the request's raw feature vectors.
LocalDelivery(draw) ==
    LET delivery_features_norm == DeliveryNormalize(draw)
    IN  Then(delivery_features_norm,
             calculate_delivery_score(delivery_features_norm))

LocalLanguage(lraw) ==
    LET language_features_norm == LanguageNormalize(lraw)
    IN  Then(language_features_norm,
             calculate_language_score(language_features_norm))

LocalFinal(draw, lraw) ==
    LET delivery_score == LocalDelivery(draw)
        language_score == LocalLanguage(lraw)
    IN  Then(<<delivery_score, language_score>>,
             calculate_final_score(delivery_score, language_score))

\* Lines 195-210: the ScoreResult built from the request; breakdown_final is
\* the final_score of the dict handed to the feedback generator.
BuildScoreResult(draw, lraw, xr) ==
    LET delivery_score == LocalDelivery(draw)
        language_score == LocalLanguage(lraw)
        local_score == calculate_final_score(delivery_score, language_score)
        d == FusedDelivery(delivery_score, xr)
        l == FusedLanguage(language_score, xr)
    IN  Then(<<delivery_score, language_score>>,
        Then(<<local_score, d, l>>,
             [raw_score |-> FusedFinal(local_score, xr),
              delivery_score |-> RMul(d, R(4, 1)),
              language_score |-> RMul(l, R(4, 1)),
              delivery_features |-> draw,
              language_features |-> lraw,
              breakdown_final |-> calculate_final_score(d, l)]))

-----------------------------------------------------------------------------
(* Inputs of one assessment request                                         *)

\* Raw delivery vectors, as calculate_all_features returns them.
DeliveryVector(v) ==
    [k \in DeliveryKeys |->
        CASE k = "wpsecutt"      -> v[1]
          [] k = "wdpchk"        -> v[2]
          [] k = "wdpchkmeandev" -> v[3]
          [] k = "silpwd"        -> v[4]
          [] k = "longpfreq"     -> v[5]
          [] k = "repfreq"       -> v[6]
          [] k = "ipc"           -> v[7]
          [] k = "dpsec"         -> v[8]
          [] k = "stretimemean"  -> v[9]
          [] k = "stresyllmdev"  -> v[10]
          [] k = "conftimeavg"   -> v[11]
          [] k = "L6"            -> v[12]]

LanguageVector(types, tpsec, poscvamax, logfreq, lmscore, cvamax) ==
    [k \in LanguageKeys |->
        CASE k = "types"     -> types
          [] k = "tpsec"     -> tpsec
          [] k = "poscvamax" -> poscvamax
          [] k = "logfreq"   -> logfreq
          [] k = "lmscore"   -> lmscore
          [] k = "cvamax"    -> cvamax]

\* The vector returned when feature computation fails (all keys 0.0).
DeliveryZero == [k \in DeliveryKeys |-> Zero]
LanguageZero == [k \in LanguageKeys |-> Zero]

\* Higher-is-better keys at their ceilings, lower-is-better keys at 0.
DeliveryCeiling ==
    [k \in DeliveryKeys |->
        IF k \in LowerIsBetter THEN Zero ELSE DeliveryMaxValues[k]]
LanguageCeiling == [k \in LanguageKeys |-> LanguageMaxValues[k]]

\* A fluent 6 s answer: 2 words/s, no pauses, confidence 0.9.
DeliveryTypical ==
    DeliveryVector(<<R(2, 1), R(12, 1), Zero, Zero, Zero, Zero, Zero, Zero,
                   R(4, 5), R(1, 5), R(9, 10), R(74, 100)>>)

\* A halting answer: several values above their ceilings.
DeliveryPoor ==
    DeliveryVector(<<R(5, 1), R(2, 1), R(12, 1), R(12, 1), R(6, 1), R(1, 4),
                   R(1, 4), R(3, 1), R(3, 1), R(2, 1), R(1, 2), R(1, 2)>>)

\* A long well-formed answer, wordfreq unavailable.
LanguageGood ==
    LanguageVector(R(7, 1), R(7, 6), R(1, 2), R(1, 2), One, One)

\* wordfreq available: the mean log10 word frequency is negative.
LanguageRare ==
    LanguageVector(R(5, 1), R(5, 6), R(1, 4), R(-3, 1), R(85, 100), R(2, 10))

DeliveryInputs == {DeliveryZero, DeliveryTypical, DeliveryPoor}

LanguageInputs == {LanguageZero, LanguageGood, LanguageRare}

\* XML elements a final payload is made of.
Num(n, d) == [num |-> TRUE, val |-> R(n, d)]
NotNum == [num |-> FALSE, val |-> Zero]
Element(rej, attrib) == [is_rejected |-> rej, attrib |-> attrib]
NoAttrib == [a \in {} |-> NotNum]

Elements ==
    { Element(FALSE, NoAttrib),
      Element(TRUE, NoAttrib),
      Element(TRUE, ("total_score" :> Num(0, 1))),
      Element(FALSE, ("total_score" :> Num(4, 1))),
      Element(FALSE, ("total_score" :> Num(5, 1))
                     @@ ("accuracy_score" :> Num(4, 1))
                     @@ ("fluency_score" :> Num(3, 1))),
      Element(FALSE, ("total_score" :> Num(4, 1))
                     @@ ("fluency_score" :> Num(3, 1))),
      Element(FALSE, ("total_score" :> Num(3, 1))
                     @@ ("accuracy_score" :> Num(4, 1))),
      Element(FALSE, ("total_score" :> NotNum)),
      Element(FALSE, ("total_score" :> Num(4, 1))
                     @@ ("accuracy_score" :> Num(2, 1))
                     @@ ("fluency_score" :> NotNum)) }

\* Bounds of the exchange.
MaxNodes == 2
MaxInterim == 2

RECURSIVE SeqsUpTo(_, _)
SeqsUpTo(S, n) ==
    IF n = 0 THEN {<<>>}
    ELSE LET shorter == SeqsUpTo(S, n - 1)
         IN  shorter \cup {Append(q, x) : q \in shorter, x \in S}

Payloads ==
    {[well_formed |-> TRUE, nodes |-> q] : q \in SeqsUpTo(Elements, MaxNodes) \ {<<>>}}
    \cup {[well_formed |-> FALSE, nodes |-> <<>>]}

\* str(error) of transport errors, and server-supplied error messages.
TransportErrors == {"Connection refused", "Connection to remote host was lost."}
ServerMessages == {"", "invalid handle"}

\* Inbound messages, as json.loads sees them.  json_ok is FALSE for text that
\* is not JSON or lacks a key on_message reads; data_ok is FALSE for a final
\* payload that is not base64-encoded UTF-8.
Message(json_ok, code, message, status, data_ok, xml) ==
    [json_ok |-> json_ok, code |-> code, message |-> message,
     status |-> status, data_ok |-> data_ok, xml |-> xml]

NoXml == [well_formed |-> FALSE, nodes |-> <<>>]

Messages ==
    {Message(FALSE, 0, "", 0, FALSE, NoXml)}
    \cup {Message(TRUE, 10109, m, 0, FALSE, NoXml) : m \in ServerMessages}
    \cup {Message(TRUE, 0, "", 1, TRUE, NoXml)}
    \cup {Message(TRUE, 0, "", 2, FALSE, NoXml)}
    \cup {Message(TRUE, 0, "", 2, TRUE, x) : x \in Payloads}

\* Number of occurrences of event e in a history.
Count(h, e) == Cardinality({i \in 1..Len(h) : h[i] = e})

-----------------------------------------------------------------------------
(* One assessment request: SpeechRater.score and the exchange it runs       *)

\* No call of calculate_all_features is being followed.
FeatIdle ==
    /\ scorer = "none" /\ n_samples = 0 /\ asr_confidence = None
    /\ analysis = <<>> /\ features = <<>> /\ at = "none" /\ returned = None

\* on_open has started no sender worker.
WorkerIdle ==
    /\ worker = "unstarted" /\ send_status = 0 /\ source = 0 /\ sent = <<>>

\* No request through a shared XunfeiRater is being followed.
SharedIdle == calls = <<>> /\ self_audio_path = None /\ self_text = None

\* No call of calculate_speech_chunks has been made.
ChunkIdle == chunks = <<>>

\* No audio file is being read byte by byte.
SendIdle == audio_file = <<>> /\ fp = 0

LateIdle == ChunkIdle /\ SendIdle

OtherIdle == FeatIdle /\ WorkerIdle /\ SharedIdle /\ LateIdle

PureIdle ==
    /\ normalized = <<>> /\ renormalized = <<>> /\ local_scores = <<>>
    /\ audio = <<>> /\ segments = <<>> /\ pauses = <<>>
    /\ text = <<>> /\ repfreq = Zero /\ ipc = Zero
    /\ step = "none"

\* No request is in progress (the pure functions are applied on their own).
RaterOff ==
    /\ pc = "off" /\ audio_exists = FALSE /\ audio_loadable = FALSE
    /\ xunfei_enabled = FALSE
    /\ xunfei_result = None /\ score_result = None
    /\ ws = "idle" /\ result = None /\ error_msg = None /\ inbound = <<>>

Init ==
    /\ pc = "idle"
    /\ audio_exists \in BOOLEAN
    /\ audio_loadable \in BOOLEAN
    /\ audio_exists = FALSE => audio_loadable = FALSE
    /\ xunfei_enabled \in BOOLEAN
    /\ delivery_features_raw \in DeliveryInputs
    /\ language_features_raw \in LanguageInputs
    /\ xunfei_result = None
    /\ score_result = None
    /\ ws = "idle"
    /\ result = None
    /\ error_msg = None
    /\ inbound = <<>>
    /\ PureIdle
    /\ OtherIdle

\* A check of the path that never fails.
FileNotFound_Unchecked(exists) == FALSE

\* SpeechRater.score lines 131-132: FileNotFoundError is raised.
FileNotFound(exists) == ~exists

\* SpeechRater.score lines 127-140 and XunfeiRater.score lines 82-96: the
\* existence check, then the start of the remote exchange when enabled.
ScoreBegin ==
    /\ pc = "idle"
    /\ IF FileNotFound(audio_exists)
       THEN /\ pc' = "raised"
            /\ UNCHANGED <<ws, result, error_msg>>
       ELSE IF xunfei_enabled
       THEN /\ pc' = "remote"
            /\ result' = None
            /\ error_msg' = None
            /\ ws' = "connecting"
       ELSE /\ pc' = "local"
            /\ UNCHANGED <<ws, result, error_msg>>
    /\ UNCHANGED <<audio_exists, audio_loadable, xunfei_enabled,
                   delivery_features_raw, language_features_raw,
                   xunfei_result, score_result, inbound>>
    /\ UNCHANGED <<pureVars, otherVars>>

\* on_open: the connection is established (the sender worker is started).
OnOpen ==
    /\ pc = "remote" /\ ws = "connecting"
    /\ ws' = "open"
    /\ inbound' = Append(inbound, "open")
    /\ UNCHANGED <<pc, audio_exists, audio_loadable, xunfei_enabled,
                   delivery_features_raw, language_features_raw,
                   xunfei_result, score_result, result, error_msg>>
    /\ UNCHANGED <<pureVars, otherVars>>

\* on_error: a transport error while connecting or while the connection is
\* open; run_forever then tears the connection down.
OnError ==
    /\ pc = "remote" /\ ws \in {"connecting", "open"}
    /\ \E e \in TransportErrors : error_msg' = OnErrorRecord(error_msg, e)
    /\ ws' = "closed"
    /\ inbound' = Append(inbound, "error")
    /\ UNCHANGED <<pc, audio_exists, audio_loadable, xunfei_enabled,
                   delivery_features_raw, language_features_raw,
                   xunfei_result, score_result, result>>
    /\ UNCHANGED <<pureVars, otherVars>>

\* on_message, lines 104-181.
OnMessage ==
    /\ pc = "remote" /\ ws = "open"
    /\ \E m \in Messages :
        IF ~m.json_ok
        THEN \* lines 178-181: the handler's own exception
             /\ error_msg' = Some("Expecting value")
             /\ ws' = "closed"
             /\ inbound' = Append(inbound, "exception")
             /\ UNCHANGED result
        ELSE IF m.code # 0
        THEN \* lines 108-112
             /\ error_msg' = AfterErrorCode(m).error_msg
             /\ ws' = AfterErrorCode(m).ws
             /\ inbound' = Append(inbound, "code")
             /\ UNCHANGED result
        ELSE IF m.status # 2
        THEN \* line 117 is false: nothing happens
             /\ Count(inbound, "interim") < MaxInterim
             /\ inbound' = Append(inbound, "interim")
             /\ UNCHANGED <<ws, result, error_msg>>
        ELSE IF ~m.data_ok
        THEN \* line 119 raises: lines 178-181
             /\ error_msg' = Some("Incorrect padding")
             /\ ws' = "closed"
             /\ inbound' = Append(inbound, "exception")
             /\ UNCHANGED result
        ELSE \* lines 119-176
             /\ result' = Some(ParsedResult(m.xml))
             /\ error_msg' = RejectionRecord(m.xml, error_msg)
             /\ ws' = "closed"
             /\ inbound' = Append(inbound, "final")
    /\ UNCHANGED <<pc, audio_exists, audio_loadable, xunfei_enabled,
                   delivery_features_raw, language_features_raw,
                   xunfei_result, score_result>>
    /\ UNCHANGED <<pureVars, otherVars>>

\* on_close: the peer closes the connection without a final message.
OnClose ==
    /\ pc = "remote" /\ ws = "open"
    /\ ws' = "closed"
    /\ inbound' = Append(inbound, "close")
    /\ UNCHANGED <<pc, audio_exists, audio_loadable, xunfei_enabled,
                   delivery_features_raw, language_features_raw,
                   xunfei_result, score_result, result, error_msg>>
    /\ UNCHANGED <<pureVars, otherVars>>

\* run_forever returns; XunfeiRater.score lines 98-102 and SpeechRater.score
\* line 140.
RunForeverReturns ==
    /\ pc = "remote" /\ ws = "closed"
    /\ xunfei_result' = ScoreReturn(error_msg, result)
    /\ pc' = "local"
    /\ UNCHANGED <<audio_exists, audio_loadable, xunfei_enabled,
                   delivery_features_raw, language_features_raw,
                   score_result, ws, result, error_msg, inbound>>
    /\ UNCHANGED <<pureVars, otherVars>>

\* SpeechRater.score lines 143-218: load the audio (raising when it cannot be
\* read), score locally, fuse, build the ScoreResult.
LocalScoreAndFuse ==
    /\ pc = "local"
    /\ IF ~audio_loadable
       THEN /\ pc' = "raised"
            /\ UNCHANGED score_result
       ELSE /\ pc' = "done"
            /\ score_result' = Some(BuildScoreResult(delivery_features_raw,
                                                     language_features_raw,
                                                     xunfei_result))
    /\ UNCHANGED <<audio_exists, audio_loadable, xunfei_enabled,
                   delivery_features_raw, language_features_raw,
                   xunfei_result, ws, result, error_msg, inbound>>
    /\ UNCHANGED <<pureVars, otherVars>>

Next ==
    \/ ScoreBegin
    \/ OnOpen
    \/ OnError
    \/ OnMessage
    \/ OnClose
    \/ RunForeverReturns
    \/ LocalScoreAndFuse

Spec == Init /\ [][Next]_vars

-----------------------------------------------------------------------------
(* Claims about one assessment request (specification Spec)                 *)

Published == Get(score_result)
RemoteXml == Get(result)["raw_xml"]
OnErrorFired == Count(inbound, "error") > 0
RemoteRejected == ~IsNone(result) /\ IsRejected(RemoteXml)
InRange(x) == RLe(Zero, x) /\ RLe(x, R(4, 1))

\* C1: when the final payload holds an element with is_rejected="true" (also
\* when the payload carries a total_score), XunfeiRater.score returns no
\* result, SpeechRater.score does not raise on a readable audio file, and the
\* published final score is the local-only score with the unfused local
\* delivery and language sub-scores.
C1_RejectionFallsBackToLocal ==
    RemoteRejected =>
        /\ pc \in {"local", "done", "raised"} => IsNone(xunfei_result)
        /\ pc = "raised" => ~audio_loadable
        /\ pc = "done" =>
            /\ Published.raw_score =
                 LocalFinal(delivery_features_raw, language_features_raw)
            /\ Published.delivery_score =
                 RMul(LocalDelivery(delivery_features_raw), R(4, 1))
            /\ Published.language_score =
                 RMul(LocalLanguage(language_features_raw), R(4, 1))

\* C1 witness: a rejected payload that also carries a numeric total_score has
\* been received and the ScoreResult has been published.
C1_Witness ==
    /\ pc = "done"
    /\ RemoteRejected
    /\ "total_score" \in DOMAIN Get(result)
    /\ ~IsNone(score_result)

\* C2: when on_error fires at any point of the exchange, or the remote rater
\* is disabled, SpeechRater.score does not abort: a fired error is recorded in
\* error_msg, the remote result is None, and the published final score is
\* local_final unchanged.
C2_TransportErrorFallsBackToLocal ==
    (OnErrorFired \/ (~xunfei_enabled /\ pc # "idle")) =>
        /\ OnErrorFired =>
             /\ ~IsNone(error_msg) /\ Get(error_msg) \in TransportErrors
             /\ pc \in {"local", "done", "raised"} => IsNone(xunfei_result)
        /\ ~xunfei_enabled => IsNone(xunfei_result) /\ IsNone(error_msg)
        /\ pc = "raised" => ~audio_loadable
        /\ pc = "done" =>
             Published.raw_score =
                 LocalFinal(delivery_features_raw, language_features_raw)

\* C2 witness: on_error fired after the connection had opened and an
\* intermediate message had arrived, and the ScoreResult has been published.
C2_Witness ==
    /\ pc = "done"
    /\ OnErrorFired
    /\ Count(inbound, "open") > 0
    /\ Count(inbound, "interim") > 0
    /\ ~IsNone(score_result)

\* C3: when the remote result declares total_score t (0-5 scale) the
\* published final score is local_final x 0.4 + (t / 5 x 4) x 0.6; with
\* t = 4.0, local_final = 3.0 and no per-dimension scores it is 3.12.
C3_FusedFinalScore ==
    (pc = "done" /\ HasTotal(xunfei_result)) =>
        LET t == Get(xunfei_result)["total_score"]
            local_final == LocalFinal(delivery_features_raw,
                                      language_features_raw)
        IN  Then(local_final,
                 /\ Published.raw_score =
                      RAdd(RMul(local_final, R(4, 10)),
                           RMul(RMul(RDiv(t, R(5, 1)), R(4, 1)), R(6, 10)))
                 /\ (t = R(4, 1) /\ local_final = R(3, 1))
                      => Published.raw_score = R(312, 100))

\* C3 witness: total_score 4.0 without per-dimension scores, local_final 3.0.
C3_Witness ==
    /\ pc = "done"
    /\ HasTotal(xunfei_result)
    /\ Get(xunfei_result)["total_score"] = R(4, 1)
    /\ DOMAIN Get(xunfei_result) =
         {"raw_xml", "total_score", "converted_score"}
    /\ LocalFinal(delivery_features_raw, language_features_raw) = R(3, 1)
    /\ Published.raw_score = R(312, 100)

\* C4: in fusion the delivery sub-score becomes local_delivery x 0.4 +
\* (fluency / 5) x 0.6 exactly when the remote result carries a fluency
\* score, the language sub-score likewise with the accuracy score; a
\* sub-score whose remote dimension is absent keeps its local value, and the
\* local_final term of the fused final score comes from the unfused local
\* sub-scores.
C4_PerDimensionFusion ==
    (pc = "done" /\ HasTotal(xunfei_result)) =>
        LET xr == Get(xunfei_result)
            d == LocalDelivery(delivery_features_raw)
            l == LocalLanguage(language_features_raw)
            local_final == calculate_final_score(d, l)
        IN  Then(<<d, l>>, Then(local_final,
                 /\ Published.delivery_score =
                      IF "fluency_score" \in DOMAIN xr
                      THEN RMul(RAdd(RMul(d, R(4, 10)),
                                     RMul(RDiv(xr["fluency_score"], R(5, 1)),
                                          R(6, 10))),
                                R(4, 1))
                      ELSE RMul(d, R(4, 1))
                 /\ Published.language_score =
                      IF "accuracy_score" \in DOMAIN xr
                      THEN RMul(RAdd(RMul(l, R(4, 10)),
                                     RMul(RDiv(xr["accuracy_score"], R(5, 1)),
                                          R(6, 10))),
                                R(4, 1))
                      ELSE RMul(l, R(4, 1))
                 /\ Published.raw_score =
                      RAdd(RMul(local_final, R(4, 10)),
                           RMul(xr["converted_score"], R(6, 10)))))

\* C4 witness: a remote result with a fluency score and no accuracy score;
\* the delivery sub-score differs from the local one, the language one not.
C4_Witness ==
    /\ pc = "done"
    /\ HasTotal(xunfei_result)
    /\ "fluency_score" \in DOMAIN Get(xunfei_result)
    /\ "accuracy_score" \notin DOMAIN Get(xunfei_result)
    /\ Published.delivery_score #
         RMul(LocalDelivery(delivery_features_raw), R(4, 1))
    /\ Published.language_score =
         RMul(LocalLanguage(language_features_raw), R(4, 1))

\* C5: for every input the final score, the delivery score and the language
\* score published in ScoreResult lie in [0, 4].
C5_PublishedScoresInRange ==
    pc = "done" =>
        /\ InRange(Published.raw_score)
        /\ InRange(Published.delivery_score)
        /\ InRange(Published.language_score)

-----------------------------------------------------------------------------
(* The local scoring pipeline applied to drawn feature vectors              *)
(* (specification SpecLocal)                                                *)

\* Raw values tried for a key, as multiples of the key's ceiling.
Multiples == {Zero, R(1, 2), One, R(2, 1)}

\* Mean log10 word frequencies (wordfreq available): negative numbers.
LogFrequencies == {R(-3, 1), R(-3, 2)}

\* A base vector with one key set to a multiple of its ceiling.
DeliveryProbes ==
    {[b EXCEPT ![k] = RMul(m, DeliveryMaxValues[k])] :
        b \in {DeliveryZero, DeliveryCeiling}, k \in DeliveryKeys,
        m \in Multiples}

LanguageProbes ==
    {[b EXCEPT ![k] = RMul(m, LanguageMaxValues[k])] :
        b \in {LanguageZero, LanguageCeiling}, k \in LanguageKeys,
        m \in Multiples}
    \cup {[b EXCEPT !["logfreq"] = v] :
        b \in {LanguageZero, LanguageCeiling}, v \in LogFrequencies}

AudioIdle == audio = <<>> /\ segments = <<>> /\ pauses = <<>>
TextIdle == text = <<>> /\ repfreq = Zero /\ ipc = Zero

InitLocal ==
    /\ RaterOff
    /\ OtherIdle
    /\ delivery_features_raw \in DeliveryProbes
    /\ language_features_raw \in LanguageProbes
    /\ normalized = <<>> /\ renormalized = <<>> /\ local_scores = <<>>
    /\ AudioIdle /\ TextIdle
    /\ step = "raw"

\* DeliveryScorer.normalize_features and LanguageScorer.normalize_features
\* on the raw vectors (SpeechRater.score lines 151 and 159).
NormalizeFeatures ==
    /\ step = "raw"
    /\ normalized' = [delivery |-> DeliveryNormalize(delivery_features_raw),
                      language |-> LanguageNormalize(language_features_raw)]
    /\ step' = "normalized"
    /\ UNCHANGED <<renormalized, local_scores, audio, segments, pauses,
                   text, repfreq, ipc>>
    /\ UNCHANGED <<raterVars, otherVars>>

\* normalize_features applied to its own output.
RenormalizeFeatures ==
    /\ step = "normalized"
    /\ renormalized' = [delivery |-> DeliveryNormalize(normalized.delivery),
                        language |-> LanguageNormalize(normalized.language)]
    /\ step' = "renormalized"
    /\ UNCHANGED <<normalized, local_scores, audio, segments, pauses,
                   text, repfreq, ipc>>
    /\ UNCHANGED <<raterVars, otherVars>>

NextLocal ==
    \/ NormalizeFeatures
    \/ RenormalizeFeatures

SpecLocal == InitLocal /\ [][NextLocal]_vars

IsNormalized == step \in {"normalized", "renormalized"}
IsRenormalized == step = "renormalized"
InUnit(x) == RLe(Zero, x) /\ RLe(x, One)

\* C6: for every raw feature vector, whatever the sign or magnitude of its
\* values, every value returned by DeliveryScorer.normalize_features and
\* LanguageScorer.normalize_features lies in [0, 1].
C6_NormalizedInUnitRange ==
    IsNormalized =>
        /\ \A k \in DOMAIN normalized.delivery : InUnit(normalized.delivery[k])
        /\ \A k \in DOMAIN normalized.language : InUnit(normalized.language[k])

\* C7 as claimed: normalize_features applied to an output of
\* normalize_features returns the same vector, for every key of the delivery
\* and language tables.
C7_Idempotent ==
    IsRenormalized => renormalized = normalized

\* The keys whose ceiling is 1.0.
UnitCeilingKeys ==
    {k \in DeliveryKeys : DeliveryMaxValues[k] = One}
    \cup {k \in LanguageKeys : LanguageMaxValues[k] = One}

\* Whether a second normalisation of x against ceiling c can return x.
FixedPoint(x, c) == x = Zero \/ (RLt(c, One) /\ x = One)

\* C7 as amended: a second normalize_features leaves the value of every key
\* whose ceiling is 1.0 unchanged (conftimeavg, stresyllmdev, L6, poscvamax,
\* logfreq, lmscore, cvamax); for every other key it divides by the ceiling
\* again and changes the value, unless the value is 0 (or is 1 under a
\* ceiling below 1: repfreq, ipc).
C7_IdempotentAtUnitCeilings ==
    IsRenormalized =>
        /\ UnitCeilingKeys = {"conftimeavg", "stresyllmdev", "L6", "poscvamax",
                              "logfreq", "lmscore", "cvamax"}
        /\ \A k \in DeliveryKeys :
             IF k \in UnitCeilingKeys
             THEN renormalized.delivery[k] = normalized.delivery[k]
             ELSE (renormalized.delivery[k] = normalized.delivery[k])
                    <=> FixedPoint(normalized.delivery[k], DeliveryMaxValues[k])
        /\ \A k \in LanguageKeys :
             IF k \in UnitCeilingKeys
             THEN renormalized.language[k] = normalized.language[k]
             ELSE (renormalized.language[k] = normalized.language[k])
                    <=> FixedPoint(normalized.language[k], LanguageMaxValues[k])

\* C7 witness: a normalized wpsecutt of 1/2 (ceiling 4.0) becomes 1/8 when
\* normalized again, while a negative normalized logfreq stays as it is.
C7_Witness ==
    /\ IsRenormalized
    /\ normalized.delivery["wpsecutt"] = R(1, 2)
    /\ renormalized.delivery["wpsecutt"] = R(1, 8)
    /\ RLt(normalized.language["logfreq"], Zero)
    /\ renormalized.language["logfreq"] = normalized.language["logfreq"]

-----------------------------------------------------------------------------
(* The local scoring pipeline in binary64 applied to drawn feature vectors *)
(* (specification SpecFloat)                                               *)

\* The ceiling vector with one key at a multiple of its ceiling.
DeliveryProbes64 ==
    {[DeliveryCeiling EXCEPT ![k] = RMul(m, DeliveryMaxValues[k])] :
        k \in DeliveryKeys, m \in Multiples}

LanguageProbes64 == {LanguageZero, LanguageGood, LanguageCeiling}

InitFloat ==
    /\ RaterOff
    /\ OtherIdle
    /\ delivery_features_raw \in DeliveryProbes64
    /\ language_features_raw \in LanguageProbes64
    /\ normalized = <<>> /\ renormalized = <<>> /\ local_scores = <<>>
    /\ AudioIdle /\ TextIdle
    /\ step = "raw64"

\* The normalized vectors of SpeechRater.score lines 151 and 159, for raw
\* vectors of doubles.
Normalized64(delivery, language) ==
    Then(<<delivery, language>>,
         [delivery |-> DeliveryNormalize64(delivery),
          language |-> LanguageNormalize64(language)])

\* SpeechRater.score lines 151 and 159.
NormalizeFeatures64 ==
    /\ step = "raw64"
    /\ normalized' = Normalized64(AsDoubles(delivery_features_raw),
                                  AsDoubles(language_features_raw))
    /\ step' = "normalized64"
    /\ UNCHANGED <<renormalized, local_scores, audio, segments, pauses,
                   text, repfreq, ipc>>
    /\ UNCHANGED <<raterVars, otherVars>>

\* The local scores of SpeechRater.score lines 152, 160 and 164-166.
LocalScores64(delivery_score, language_score) ==
    Then(<<delivery_score, language_score>>,
         [delivery_score |-> delivery_score,
          language_score |-> language_score,
          local_final |-> calculate_final_score64(delivery_score,
                                                  language_score)])

\* SpeechRater.score lines 152, 160 and 164-166.
CalculateLocalScores64 ==
    /\ step = "normalized64"
    /\ local_scores' =
         LocalScores64(calculate_delivery_score64(normalized.delivery),
                       calculate_language_score64(normalized.language))
    /\ step' = "scored64"
    /\ UNCHANGED <<normalized, renormalized, audio, segments, pauses,
                   text, repfreq, ipc>>
    /\ UNCHANGED <<raterVars, otherVars>>

NextFloat ==
    \/ NormalizeFeatures64
    \/ CalculateLocalScores64

SpecFloat == InitFloat /\ [][NextFloat]_vars

\* The ceiling vectors of C8 have been scored.
CeilingVectorsScored ==
    /\ step = "scored64"
    /\ \A k \in DeliveryKeys \ LowerIsBetter :
         delivery_features_raw[k] = DeliveryMaxValues[k]
    /\ \A k \in LowerIsBetter : delivery_features_raw[k] = Zero
    /\ \A k \in LanguageKeys : language_features_raw[k] = LanguageMaxValues[k]

\* 1 + 2^-52, the double next above 1.0 (1.0000000000000002).
NextAboveOne == [m |-> NAdd(FOne.m, <<1>>), e |-> FOne.e]

-----------------------------------------------------------------------------
(* AudioAnalyzer: src/scoring/audio_analyzer.py                            *)
(*                                                                         *)
(* A waveform is a sequence of blocks of hop_length samples; the samples   *)
(* of block b all have the squared amplitude audio[b].  Times are seconds, *)
(* as exact rationals.                                                     *)

\* AUDIO_CONFIG
sample_rate == 16000
vad_frame_duration == R(3, 100)
short_pause_threshold == R(15, 100)
long_pause_threshold == R(1, 2)
min_speech_duration == R(1, 10)

\* Lines 59-60
frame_length == RFloor(RMul(Int2R(sample_rate), vad_frame_duration))
hop_length == frame_length \div 2

\* len(audio), in samples.
NumSamples(a) == hop_length * Len(a)

\* Line 280 and lines 92, 109: len(audio) / sample_rate
get_audio_duration(a) == R(NumSamples(a), sample_rate)

\* Line 64: the number of frame starts in range(0, len - frame_length, hop).
NumFrames(a) ==
    IF NumSamples(a) <= frame_length THEN 0
    ELSE (NumSamples(a) - frame_length + hop_length - 1) \div hop_length

\* Lines 65-66: np.mean(frame ** 2) of the frame starting at sample
\* (j - 1) * hop_length, which covers frame_length \div hop_length blocks.
RECURSIVE BlockSum(_, _, _)
BlockSum(a, from, n) ==
    IF n = 0 THEN 0 ELSE a[from] + BlockSum(a, from + 1, n - 1)

FrameEnergy(a, j) ==
    R(hop_length * BlockSum(a, j, frame_length \div hop_length), frame_length)

Energies(a) == [j \in 1..NumFrames(a) |-> FrameEnergy(a, j)]

\* acc + q[lo] + ... + q[hi] (the range is split in halves to keep the
\* evaluation shallow).
RECURSIVE SeqSum(_, _, _, _)
SeqSum(q, lo, hi, acc) ==
    IF lo > hi THEN acc
    ELSE IF lo = hi THEN RAdd(acc, q[lo])
    ELSE LET mid == (lo + hi) \div 2
             first == SeqSum(q, lo, mid, acc)
         IN  Then(first, SeqSum(q, mid + 1, hi, first))

\* np.mean of a non-empty sequence of rationals.
Mean(q) == RDiv(SeqSum(q, 1, Len(q), Zero), Int2R(Len(q)))

\* The iteration without the minimum-duration test.
VadStep_NoMinimum(energy, threshold, i, st) ==
    LET time == R((i - 1) * hop_length, sample_rate)
        e == energy[i]
    IN  IF RLt(threshold, e) /\ ~st.in_speech
        THEN [st EXCEPT !.in_speech = TRUE, !.start_time = time]
        ELSE IF RLe(e, threshold) /\ st.in_speech
        THEN [st EXCEPT !.in_speech = FALSE,
                        !.segs = Append(st.segs, <<st.start_time, time>>)]
        ELSE st

\* Lines 80-88: one iteration of the loop over the frames, on frame i
\* (1-based, so enumerate's index is i - 1); st holds the loop's variables.
VadStep(energy, threshold, i, st) ==
    LET time == R((i - 1) * hop_length, sample_rate)
        e == energy[i]
    IN  IF RLt(threshold, e) /\ ~st.in_speech
        THEN [st EXCEPT !.in_speech = TRUE, !.start_time = time]
        ELSE IF RLe(e, threshold) /\ st.in_speech
        THEN [st EXCEPT !.in_speech = FALSE,
                        !.segs = IF RLe(min_speech_duration,
                                        RSub(time, st.start_time))
                                 THEN Append(st.segs, <<st.start_time, time>>)
                                 ELSE st.segs]
        ELSE st

\* The iterations lo..hi in order (split in halves to keep the evaluation
\* shallow).
RECURSIVE VadLoop(_, _, _, _, _)
VadLoop(energy, threshold, lo, hi, st) ==
    IF lo > hi THEN st
    ELSE IF lo = hi THEN VadStep(energy, threshold, lo, st)
    ELSE LET mid == (lo + hi) \div 2
             first == VadLoop(energy, threshold, lo, mid, st)
         IN  Then(first, VadLoop(energy, threshold, mid + 1, hi, first))

\* Lines 49-96
detect_speech_segments(a) ==
    LET energy == Energies(a)
    IN  IF Len(energy) = 0 THEN <<>>
        ELSE LET threshold == RMul(Mean(energy), R(1, 10))
                 end == Then(threshold,
                             VadLoop(energy, threshold, 1, Len(energy),
                                     [in_speech |-> FALSE,
                                      start_time |-> Zero, segs |-> <<>>]))
                 end_time == get_audio_duration(a)
             IN  IF end.in_speech
                    /\ RLe(min_speech_duration, RSub(end_time, end.start_time))
                 THEN Append(end.segs, <<end.start_time, end_time>>)
                 ELSE end.segs

\* Lines 118-122: the gaps before each segment, from segment i on.
RECURSIVE SilenceLoop(_, _, _, _)
SilenceLoop(segs, i, prev_end, silences) ==
    IF i > Len(segs) THEN [prev_end |-> prev_end, silences |-> silences]
    ELSE SilenceLoop(segs, i + 1, segs[i][2],
                     IF RLt(prev_end, segs[i][1])
                     THEN Append(silences, RSub(segs[i][1], prev_end))
                     ELSE silences)

\* A short-pause test without the upper limit.
IsShortPause_NoUpper(d) == RLe(short_pause_threshold, d)

IsShortPause(d) ==
    RLe(short_pause_threshold, d) /\ RLt(d, long_pause_threshold)
IsLongPause(d) == RLe(long_pause_threshold, d)

\* Lines 98-134: <<short_pauses, long_pauses>>
detect_silences(a) ==
    LET speech_segments == detect_speech_segments(a)
        total_duration == get_audio_duration(a)
    IN  IF Len(speech_segments) = 0 THEN <<<<>>, <<>>>>
        ELSE LET gaps == SilenceLoop(speech_segments, 1, Zero, <<>>)
                 silences == IF RLt(gaps.prev_end, total_duration)
                             THEN Append(gaps.silences,
                                         RSub(total_duration, gaps.prev_end))
                             ELSE gaps.silences
             IN  <<SelectSeq(silences, IsShortPause),
                   SelectSeq(silences, IsLongPause)>>

\* A natural number below 2^30 as an integer.
NToInt(a) == Limb(a, 1) + Radix * Limb(a, 2)

\* int(x) for a double 0 <= x < 2^30
FTrunc(x) ==
    IF x.m = <<>> THEN 0
    ELSE IF x.e >= 0 THEN NToInt(NShl(x.m, x.e))
    ELSE NToInt(NShr(x.m, -x.e))

\* The times of a segment are Python floats: i * hop_length / sample_rate
\* (line 81) and len(audio) / sample_rate (line 92), each the double
\* nearest to the quotient.  Line 161: duration = end - start
SegmentDuration(seg) ==
    LET end == FromR(seg[2])
        start == FromR(seg[1])
    IN  Then(end, Then(start, FSub(end, start)))

\* Line 153: sum(end - start for ...), the additions in order from 0.  (With
\* up to two terms every summation order and method gives this double.)
RECURSIVE SpeechTime(_, _, _)
SpeechTime(segs, i, acc) ==
    IF i > Len(segs) THEN acc
    ELSE LET duration == SegmentDuration(segs[i])
             next == Then(duration, FAdd(acc, duration))
         IN  Then(next, SpeechTime(segs, i + 1, next))

\* Line 162: int((duration / total_speech_time) * total_words)
words_in_chunk(duration, total_speech_time, total_words) ==
    LET share == Then(duration, FDiv(duration, total_speech_time))
    IN  Then(share, FTrunc(FMul(share, FromInt(total_words))))

IsPositive(n) == n > 0

\* Lines 159-164
ChunkLengths(segs, total_speech_time, total_words) ==
    SelectSeq([i \in 1..Len(segs) |->
                  words_in_chunk(SegmentDuration(segs[i]), total_speech_time,
                                 total_words)],
              IsPositive)

RDist(x, y) == IF RLt(x, y) THEN RSub(y, x) ELSE RSub(x, y)

\* Lines 170-171: the mean of |length - mean_length|.  (The lengths are
\* small integers; with up to two of them every step is exact in doubles.)
MeanDeviationFrom(q, mean_length) ==
    Mean([i \in 1..Len(q) |-> RDist(q[i], mean_length)])

MeanDeviation(lengths) ==
    MeanDeviationFrom([i \in 1..Len(lengths) |-> Int2R(lengths[i])],
                      Mean([i \in 1..Len(lengths) |-> Int2R(lengths[i])]))

NoChunks == [chunk_lengths |-> <<>>, mean_deviation |-> Zero]

\* Lines 153-173, from the segments on.
ChunksOf(segs, total_speech_time, total_words) ==
    IF total_speech_time = FZero THEN NoChunks
    ELSE LET chunk_lengths ==
                 ChunkLengths(segs, total_speech_time, total_words)
         IN  IF chunk_lengths = <<>> THEN NoChunks
             ELSE [chunk_lengths |-> chunk_lengths,
                   mean_deviation |-> MeanDeviation(chunk_lengths)]

\* Lines 136-174; text_words is given by its length.
calculate_speech_chunks(a, total_words) ==
    LET speech_segments == detect_speech_segments(a)
    IN  IF speech_segments = <<>> \/ total_words = 0 THEN NoChunks
        ELSE LET total_speech_time == SpeechTime(speech_segments, 1, FZero)
             IN  Then(total_speech_time,
                      ChunksOf(speech_segments, total_speech_time,
                               total_words))

-----------------------------------------------------------------------------
(* The audio analysis applied to drawn waveforms (specification SpecAudio)  *)

\* Waveforms are runs of silent blocks alternating with runs of speech
\* blocks; a run is 0, 4, 12 or 36 blocks (0, 0.06, 0.18, 0.54 s) long.
RunLengths == {0, 4, 12, 36}
MaxRuns == 4

\* Squared amplitude of a speech block.
Loud == 1

Run(n, v) == [i \in 1..n |-> v]

RECURSIVE Waveforms(_)
Waveforms(n) ==
    IF n = 0 THEN {<<>>}
    ELSE {w \o Run(len, IF n % 2 = 1 THEN 0 ELSE Loud) :
            w \in Waveforms(n - 1), len \in RunLengths}

AudioInputs == Waveforms(MaxRuns)

IsSilent(a) == \A b \in 1..Len(a) : a[b] = 0

InitAudio ==
    /\ RaterOff
    /\ OtherIdle
    /\ delivery_features_raw = DeliveryZero
    /\ language_features_raw = LanguageZero
    /\ normalized = <<>> /\ renormalized = <<>> /\ local_scores = <<>>
    /\ audio \in AudioInputs
    /\ segments = <<>> /\ pauses = <<>>
    /\ TextIdle
    /\ step = "loaded"

\* AudioAnalyzer.detect_speech_segments(audio)
DetectSpeechSegments ==
    /\ step = "loaded"
    /\ segments' = detect_speech_segments(audio)
    /\ step' = "segmented"
    /\ UNCHANGED <<normalized, renormalized, local_scores, audio, pauses,
                   text, repfreq, ipc>>
    /\ UNCHANGED <<raterVars, otherVars>>

\* AudioAnalyzer.detect_silences(audio)
DetectSilences ==
    /\ step = "segmented"
    /\ pauses' = detect_silences(audio)
    /\ step' = "silences"
    /\ UNCHANGED <<normalized, renormalized, local_scores, audio, segments,
                   text, repfreq, ipc>>
    /\ UNCHANGED <<raterVars, otherVars>>

\* len(text_words) of the calls followed.
WordCounts == {0, 2, 11}

\* AudioAnalyzer.calculate_speech_chunks(audio, text_words)
CalculateSpeechChunks ==
    /\ step = "loaded"
    /\ chunks = None
    /\ \E total_words \in WordCounts :
          chunks' = Some([total_words |-> total_words,
                          found |-> calculate_speech_chunks(audio,
                                                            total_words)])
    /\ step' = "chunks"
    /\ UNCHANGED <<normalized, renormalized, local_scores, audio, segments,
                   pauses, text, repfreq, ipc>>
    /\ UNCHANGED <<raterVars, featVars, workerVars, sharedVars, sendVars>>

NextAudio ==
    \/ DetectSpeechSegments
    \/ DetectSilences
    \/ CalculateSpeechChunks

SpecAudio == InitAudio /\ [][NextAudio]_vars

\* C9: for all-zero audio of any duration D, detect_speech_segments returns
\* an empty segment sequence and detect_silences reports exactly one long
\* pause of duration D and no short pauses.
C9_SilentAudioIsOneLongPause ==
    (IsSilent(audio) /\ step = "silences") =>
        /\ segments = <<>>
        /\ pauses = <<<<>>, <<get_audio_duration(audio)>>>>

\* The gaps of a segmentation of an audio of the given duration: before the
\* first segment, between consecutive segments, after the last segment.
GapsOf(segs, total_duration) ==
    [i \in 1..(Len(segs) + 1) |->
        IF i = 1 THEN segs[1][1]
        ELSE IF i <= Len(segs) THEN RSub(segs[i][1], segs[i - 1][2])
        ELSE RSub(total_duration, segs[Len(segs)][2])]

GapIsShort(d) == RLe(R(15, 100), d) /\ RLt(d, R(1, 2))
GapIsLong(d) == RLe(R(1, 2), d)
GapIsDiscarded(d) == RLt(d, R(15, 100))

SeqElems(q) == {q[i] : i \in 1..Len(q)}

PausesAreClassifiedGaps(found, gaps) ==
    /\ found[1] = SelectSeq(gaps, GapIsShort)
    /\ found[2] = SelectSeq(gaps, GapIsLong)
    /\ \A i \in 1..Len(gaps) :
          /\ GapIsShort(gaps[i]) \/ GapIsLong(gaps[i])
               \/ GapIsDiscarded(gaps[i])
          /\ ~(GapIsShort(gaps[i]) /\ GapIsLong(gaps[i]))
          /\ ~(GapIsShort(gaps[i]) /\ GapIsDiscarded(gaps[i]))
          /\ ~(GapIsLong(gaps[i]) /\ GapIsDiscarded(gaps[i]))

\* C21: the pauses of detect_silences are the gaps before the first
\* segment, between consecutive segments and after the last segment; each
\* gap is in exactly one class (short when 0.15 <= d < 0.5, long when
\* d >= 0.5, discarded when d < 0.15); for every segmentation the short and
\* the long pauses share no element and the reported pause durations sum to
\* at most the audio's duration.
C21_PausesClassifyGaps ==
    (step = "silences") =>
        /\ segments # <<>> =>
              PausesAreClassifiedGaps(
                  pauses, GapsOf(segments, get_audio_duration(audio)))
        /\ SeqElems(pauses[1]) \cap SeqElems(pauses[2]) = {}
        /\ RLe(SeqSum(pauses[1] \o pauses[2], 1,
                      Len(pauses[1]) + Len(pauses[2]), Zero),
               get_audio_duration(audio))

\* A segmentation with a short pause, a long pause and a discarded gap.
C21_Witness ==
    /\ step = "silences"
    /\ segments # <<>>
    /\ pauses[1] # <<>>
    /\ pauses[2] # <<>>
    /\ \E i \in 1..(Len(segments) + 1) :
          GapIsDiscarded(GapsOf(segments, get_audio_duration(audio))[i])

\* The frames above the adaptive threshold.
IsSpeechFrame(energy, j) == RLt(RMul(Mean(energy), R(1, 10)), energy[j])

\* The first frame of the run of speech frames that reaches the last frame.
TrailingRunStart(energy) ==
    CHOOSE j \in 1..Len(energy) :
        /\ \A k \in j..Len(energy) : IsSpeechFrame(energy, k)
        /\ j > 1 => ~IsSpeechFrame(energy, j - 1)

SegmentsWellFormed(segs, total) ==
    /\ \A i \in 1..Len(segs) :
          /\ RLt(segs[i][1], segs[i][2])
          /\ RLe(segs[i][2], total)
          /\ RLe(R(1, 10), RSub(segs[i][2], segs[i][1]))
    /\ \A i, j \in 1..Len(segs) : i < j => RLe(segs[i][2], segs[j][1])

OpenSegmentClosedAtEnd(energy, segs, total) ==
    (Len(energy) > 0 /\ IsSpeechFrame(energy, Len(energy))) =>
        LET start == R((TrailingRunStart(energy) - 1) * hop_length,
                       sample_rate)
        IN  IF RLe(R(1, 10), RSub(total, start))
            THEN segs # <<>> /\ segs[Len(segs)] = <<start, total>>
            ELSE \A i \in 1..Len(segs) : segs[i][2] # total

\* C22: the segments of detect_speech_segments are ordered in time and do
\* not overlap, each has start < end <= the audio's duration and lasts at
\* least 0.1 s, and a segment still open at the last frame is closed at the
\* audio's end time under the same minimum-duration rule.
C22_SegmentsWellFormed ==
    (step \in {"segmented", "silences"}) =>
        /\ SegmentsWellFormed(segments, get_audio_duration(audio))
        /\ OpenSegmentClosedAtEnd(Energies(audio), segments,
                                  get_audio_duration(audio))

\* Two segments, the second one closed at the end of the audio.
C22_Witness ==
    /\ step = "segmented"
    /\ Len(segments) >= 2
    /\ segments[Len(segments)][2] = get_audio_duration(audio)

\* floor(N x duration / total speech time) for every segment, in exact
\* arithmetic.
ProportionalFloors(segs, total_words) ==
    LET durations == [i \in 1..Len(segs) |-> RSub(segs[i][2], segs[i][1])]
        total == SeqSum(durations, 1, Len(segs), Zero)
    IN  [i \in 1..Len(segs) |->
            RFloor(RDiv(RMul(Int2R(total_words), durations[i]), total))]

IntSum(q) == SeqSum([i \in 1..Len(q) |-> Int2R(q[i])], 1, Len(q), Zero)

ChunksAsStated(segs, total_words, found) ==
    LET expected == SelectSeq(ProportionalFloors(segs, total_words),
                              IsPositive)
    IN  IF segs = <<>> \/ total_words = 0 \/ expected = <<>>
        THEN found = NoChunks
        ELSE /\ found.chunk_lengths = expected
             /\ \A i \in 1..Len(found.chunk_lengths) :
                    found.chunk_lengths[i] >= 1
             /\ RLe(IntSum(found.chunk_lengths), Int2R(total_words))
             /\ found.mean_deviation = MeanDeviation(found.chunk_lengths)

\* C23: with N transcript words, calculate_speech_chunks reports for each
\* segment floor(N x its duration / total speech time) words, leaving out
\* the segments that get 0 words, so every chunk length is >= 1 and the
\* lengths sum to at most N; the deviation is the mean absolute deviation
\* from the mean of the reported lengths; the result is ([], 0.0) when
\* there are no segments, no words or no surviving chunk.
C23_ChunksAreProportionalFloors ==
    (chunks # None) =>
        ChunksAsStated(detect_speech_segments(audio), chunks[1].total_words,
                       chunks[1].found)

-----------------------------------------------------------------------------
(* DeliveryScorer, transcript features: src/scoring/delivery_scorer.py      *)
(*                                                                         *)
(* A transcript is the sequence of its whitespace-separated tokens.  A     *)
(* token is [base, upper, dots]: the letters in lower case, whether the    *)
(* token is capitalised, and the number of full stops that follow.         *)

Token(base, upper, dots) == [base |-> base, upper |-> upper, dots |-> dots]

\* str.lower() on one token.
Lower(t) == [t EXCEPT !.upper = FALSE]

\* text.lower().split()
LowerSplit(txt) == [i \in 1..Len(txt) |-> Lower(txt[i])]

\* A loop that stops one position early: range(len(words) - 2).
RECURSIVE Repetitions_Short(_, _)
Repetitions_Short(words, i) ==
    IF i > Len(words) - 2 THEN 0
    ELSE (IF words[i] = words[i + 1] THEN 1 ELSE 0)
         + Repetitions_Short(words, i + 1)

\* Lines 103-106: the loop over range(len(words) - 1), from position i on.
RECURSIVE Repetitions(_, _)
Repetitions(words, i) ==
    IF i > Len(words) - 1 THEN 0
    ELSE (IF words[i] = words[i + 1] THEN 1 ELSE 0)
         + Repetitions(words, i + 1)

\* Lines 98-108
calculate_repetition_frequency(words) ==
    IF Len(words) < 2 THEN Zero
    ELSE R(Repetitions(words, 1), Len(words))

\* Lines 122-125: the loop over range(len(words) - 2), from position i on.
RECURSIVE RepeatThenDifferent(_, _)
RepeatThenDifferent(words, i) ==
    IF i > Len(words) - 2 THEN 0
    ELSE (IF words[i] = words[i + 1] /\ words[i + 1] # words[i + 2]
          THEN 1 ELSE 0)
         + RepeatThenDifferent(words, i + 1)

\* text.count("...") and text.count(".."): non-overlapping occurrences, which
\* lie inside the runs of full stops.
RECURSIVE CountDots(_, _, _)
CountDots(txt, i, width) ==
    IF i > Len(txt) THEN 0
    ELSE (txt[i].dots \div width) + CountDots(txt, i + 1, width)

\* Lines 128-129
EllipsisPoints(txt) ==
    IF CountDots(txt, 1, 3) > 0 \/ CountDots(txt, 1, 2) > 0
    THEN CountDots(txt, 1, 3) + CountDots(txt, 1, 2)
    ELSE 0

\* Lines 110-131
calculate_interruption_points(txt) ==
    LET words == LowerSplit(txt)
    IN  IF Len(words) < 3 THEN Zero
        ELSE R(RepeatThenDifferent(words, 1) + EllipsisPoints(txt),
               Len(words))

-----------------------------------------------------------------------------
(* The transcript features applied to drawn transcripts (SpecText)          *)

Vocabulary ==
    {Token("the", FALSE, 0), Token("the", TRUE, 0), Token("cat", FALSE, 0),
     Token("sat", FALSE, 0), Token("", FALSE, 3), Token("went", FALSE, 2)}

MaxWords == 4

Transcripts == SeqsUpTo(Vocabulary, MaxWords)

InitText ==
    /\ RaterOff
    /\ OtherIdle
    /\ delivery_features_raw = DeliveryZero
    /\ language_features_raw = LanguageZero
    /\ normalized = <<>> /\ renormalized = <<>> /\ local_scores = <<>>
    /\ AudioIdle
    /\ text \in Transcripts
    /\ repfreq = Zero /\ ipc = Zero
    /\ step = "text"

\* calculate_all_features lines 41 and 62
CalculateRepetitionFrequency ==
    /\ step = "text"
    /\ repfreq' = calculate_repetition_frequency(LowerSplit(text))
    /\ step' = "repfreq"
    /\ UNCHANGED <<normalized, renormalized, local_scores, audio, segments,
                   pauses, text, ipc>>
    /\ UNCHANGED <<raterVars, otherVars>>

\* calculate_all_features line 65
CalculateInterruptionPoints ==
    /\ step = "repfreq"
    /\ ipc' = calculate_interruption_points(text)
    /\ step' = "ipc"
    /\ UNCHANGED <<normalized, renormalized, local_scores, audio, segments,
                   pauses, text, repfreq>>
    /\ UNCHANGED <<raterVars, otherVars>>

NextText ==
    \/ CalculateRepetitionFrequency
    \/ CalculateInterruptionPoints

SpecText == InitText /\ [][NextText]_vars

\* Positions i with w[i] = w[i+1], and those where moreover w[i+1] # w[i+2].
RepeatPositions(w) == {i \in 1..(Len(w) - 1) : w[i] = w[i + 1]}
CorrectionPositions(w) ==
    {i \in 1..(Len(w) - 2) : w[i] = w[i + 1] /\ w[i + 1] # w[i + 2]}

TheTheCatSat ==
    <<Token("the", FALSE, 0), Token("the", FALSE, 0), Token("cat", FALSE, 0),
      Token("sat", FALSE, 0)>>

\* The statement of C10 with the words compared as w gives them.
RepeatFormulas(w) ==
    LET n == Len(w)
    IN  /\ step \in {"repfreq", "ipc"} =>
             repfreq = IF n < 2 THEN Zero
                       ELSE R(Cardinality(RepeatPositions(w)), n)
        /\ step = "ipc" =>
             ipc = IF n < 3 THEN Zero
                   ELSE R(Cardinality(CorrectionPositions(w))
                          + EllipsisPoints(text), n)
        /\ (step = "ipc" /\ text = TheTheCatSat) =>
             /\ repfreq = R(1, 4)
             /\ RepeatThenDifferent(LowerSplit(text), 1) = 1
             /\ ipc = R(1, 4)

\* C10 as claimed: for a transcript of n whitespace-separated words, repfreq
\* is the number of positions i with word[i] = word[i+1], divided by n (0
\* when n < 2), and the repeat part of ipc counts each position with
\* word[i] = word[i+1] # word[i+2] once, divided by n (0 when n < 3); the
\* words are those of the transcript as written.
C10_RepeatsOfTranscriptWords == RepeatFormulas(text)

\* C10 as amended: the same, with the words compared after lower-casing
\* (text.lower().split()), so that "The the" is a repeat; "the the cat sat"
\* gives repfreq = 0.25 and one counted interruption.
C10_RepeatsOfLowercasedWords == RepeatFormulas(LowerSplit(text))

\* C10 witness: "the the cat sat" has been scored.
C10_Witness ==
    /\ step = "ipc"
    /\ text = TheTheCatSat
    /\ repfreq = R(1, 4)
    /\ ipc = R(1, 4)

\* The ellipsis markers of a transcript: the runs of two or three full
\* stops.
EllipsisMarkers(txt) == Cardinality({i \in 1..Len(txt) : txt[i].dots >= 2})

\* C25: for a transcript of n >= 3 words, ipc is (the number of
\* repeat-then-different positions + the number of ellipsis markers in the
\* text) / n, each marker "..." or ".." adding exactly one interruption
\* point.
C25_EachEllipsisCountsOnce ==
    (step = "ipc" /\ Len(text) >= 3) =>
        ipc = R(RepeatThenDifferent(LowerSplit(text), 1)
                    + EllipsisMarkers(text),
                Len(text))

-----------------------------------------------------------------------------
(* calculate_all_features of DeliveryScorer (delivery_scorer.py, lines     *)
(* 22-90) and of LanguageScorer (language_scorer.py, lines 56-104),        *)
(* followed statement by statement.  The audio is known by its number of   *)
(* samples and by what the analysers find in it (analysis); a dict is a    *)
(* function from its keys.                                                 *)

\* A number of samples as a duration: len(audio) / sample_rate.
DurationOf(n) == R(n, sample_rate)

\* A speaking rate that counts one word too many.
calculate_speaking_rate_OneMore(words, duration) == IF RLe(duration, Zero) THEN Zero ELSE RDiv(Int2R(Len(words) + 1), duration)

\* delivery_scorer.py lines 92-96
calculate_speaking_rate(words, duration) == IF RLe(duration, Zero) THEN Zero ELSE RDiv(Int2R(Len(words)), duration)

\* config.py line 57.  The words tested against this list are single
\* tokens of a whitespace split, and no token holds a space.
disfluency_words == {"um", "uh", "er", "ah", "like", "you know"}

\* delivery_scorer.py lines 133-140
calculate_disfluency_frequency(words, duration) ==
    LET disfluency_count ==
            Cardinality({i \in 1..Len(words) :
                            /\ words[i].dots = 0
                            /\ words[i].base \in disfluency_words})
    IN  IF RLe(duration, Zero) THEN Zero
        ELSE RDiv(Int2R(disfluency_count), duration)

\* delivery_scorer.py lines 142-165; stress_times is known by its length.
calculate_pronunciation_quality(confidence, stress_times, duration) ==
    LET part1 == IF ~IsNone(confidence)
                 THEN RMul(Get(confidence), R(6, 10)) ELSE R(3, 10)
        part2 == IF RLt(Zero, duration) /\ stress_times > 0
                 THEN RMul(RMin(RDiv(RDiv(Int2R(stress_times), duration),
                                     R(3, 1)), One),
                           R(4, 10))
                 ELSE R(2, 10)
    IN  RMin(RAdd(part1, part2), One)

\* config.py lines 55-56 and language_scorer.py lines 234-253
target_word_count_independent == 130

calculate_word_count_score(word_count, target_count) ==
    LET ratio == R(word_count, target_count)
    IN  IF target_count = 0 THEN Zero
        ELSE IF RLe(R(8, 10), ratio) /\ RLe(ratio, R(12, 10)) THEN One
        ELSE IF \/ RLe(R(6, 10), ratio) /\ RLt(ratio, R(8, 10))
                \/ RLt(R(12, 10), ratio) /\ RLe(ratio, R(15, 10))
             THEN R(7, 10)
        ELSE IF \/ RLe(R(4, 10), ratio) /\ RLt(ratio, R(6, 10))
                \/ RLt(R(15, 10), ratio) /\ RLe(ratio, R(2, 1))
             THEN R(4, 10)
        ELSE R(2, 10)

\* The statements of DeliveryScorer.calculate_all_features inside its try
\* block, named by what they compute, in order.
DeliveryStatements ==
    <<"load", "wpsecutt", "chunks", "silences", "repfreq", "ipc", "dpsec",
      "stress", "conftimeavg", "L6", "return">>

\* Those of LanguageScorer.calculate_all_features.
LanguageStatements ==
    <<"split", "types", "tpsec", "poscvamax", "logfreq", "lmscore", "cvamax",
      "return">>

StatementsOf(s) == IF s = "delivery" THEN DeliveryStatements ELSE LanguageStatements

\* self.weights.keys() of the scorer.
WeightKeysOf(s) == IF s = "delivery" THEN DeliveryKeys ELSE LanguageKeys

\* The statement after statement a.
Following(s, a) ==
    LET q == StatementsOf(s)
        i == CHOOSE j \in 1..Len(q) : q[j] = a
    IN  q[i + 1]

\* features[...] = ...: the dict f with the entries of g assigned.
Assign(f, g) == g @@ f

\* delivery_scorer.py lines 37-83: the dict after statement a.
DeliveryAssign(a, f, txt, n, confidence, found) ==
    LET duration == DurationOf(n)
        words == LowerSplit(txt)
    IN  CASE a = "load" -> f
          [] a = "wpsecutt" ->
               Assign(f, "wpsecutt" :> calculate_speaking_rate(words, duration))
          [] a = "chunks" ->
               Assign(f, ("wdpchk" :> found.chunk_mean)
                         @@ ("wdpchkmeandev" :> found.chunk_deviation))
          [] a = "silences" ->
               Assign(f, ("silpwd" :> Int2R(found.short_pauses))
                         @@ ("longpfreq" :> Int2R(found.long_pauses)))
          [] a = "repfreq" ->
               Assign(f, "repfreq" :> calculate_repetition_frequency(words))
          [] a = "ipc" ->
               Assign(f, "ipc" :> calculate_interruption_points(txt))
          [] a = "dpsec" ->
               Assign(f, "dpsec" :>
                            calculate_disfluency_frequency(words, duration))
          [] a = "stress" ->
               Assign(f, ("stretimemean" :> found.stress_mean)
                         @@ ("stresyllmdev" :> found.stress_dev))
          [] a = "conftimeavg" ->
               Assign(f, "conftimeavg" :>
                            IF ~IsNone(confidence) THEN Get(confidence)
                            ELSE R(1, 2))
          [] a = "L6" ->
               Assign(f, "L6" :>
                            calculate_pronunciation_quality(
                                confidence, found.stress_times, duration))

\* language_scorer.py lines 73-98: the dict after statement a; the duration
\* is the audio_duration argument.
LanguageAssign(a, f, txt, n, found) ==
    LET audio_duration == DurationOf(n)
        word_count == Len(txt)
    IN  CASE a = "split" -> f
          [] a = "types" -> Assign(f, "types" :> found.types)
          [] a = "tpsec" ->
               Assign(f, "tpsec" :>
                            IF RLt(Zero, audio_duration)
                            THEN RDiv(f["types"], audio_duration) ELSE Zero)
          [] a = "poscvamax" -> Assign(f, "poscvamax" :> found.poscvamax)
          [] a = "logfreq" -> Assign(f, "logfreq" :> found.logfreq)
          [] a = "lmscore" -> Assign(f, "lmscore" :> found.lmscore)
          [] a = "cvamax" ->
               Assign(f, "cvamax" :>
                            calculate_word_count_score(
                                word_count, target_word_count_independent))

\* {key: 0.0 for key in self.weights.keys()}
ZeroVector(s) == [k \in WeightKeysOf(s) |-> Zero]

\* An except clause that hands back the dict as far as it was built.
ExceptReturn_Partial(s, f) == f

\* delivery_scorer.py lines 87-90 and language_scorer.py lines 102-104: what
\* the except clause returns when the dict was built as far as f.
ExceptReturn(s, f) == ZeroVector(s)

-----------------------------------------------------------------------------
(* One call of calculate_all_features (specification SpecFeatures)          *)

\* "I think the most important quality for a friend is honesty."
FriendHonesty ==
    <<Token("i", TRUE, 0), Token("think", FALSE, 0), Token("the", FALSE, 0),
      Token("most", FALSE, 0), Token("important", FALSE, 0),
      Token("quality", FALSE, 0), Token("for", FALSE, 0),
      Token("a", FALSE, 0), Token("friend", FALSE, 0), Token("is", FALSE, 0),
      Token("honesty", FALSE, 1)>>

\* "um the the cat.. sat"
UmTheTheCat ==
    <<Token("um", FALSE, 0), Token("the", FALSE, 0), Token("the", FALSE, 0),
      Token("cat", FALSE, 2), Token("sat", FALSE, 0)>>

\* "You know it is like um fine"
YouKnowLike ==
    <<Token("you", TRUE, 0), Token("know", FALSE, 0), Token("it", FALSE, 0),
      Token("is", FALSE, 0), Token("like", FALSE, 0), Token("um", FALSE, 0),
      Token("fine", FALSE, 0)>>

FeatureTranscripts == {<<>>, FriendHonesty, UmTheTheCat, YouKnowLike}

\* len(audio): no samples, 3 s and 6 s at the configured sample rate.
SampleCounts == {0, 3 * sample_rate, 6 * sample_rate}

Confidences == {None, Some(R(9, 10))}

\* What the audio analyser finds: nothing; one chunk, no pauses, five
\* stressed syllables; uneven chunks, pauses, three stressed syllables.
DeliveryAnalyses ==
    {[chunk_mean |-> Zero, chunk_deviation |-> Zero, short_pauses |-> 0,
      long_pauses |-> 0, stress_times |-> 0, stress_mean |-> Zero,
      stress_dev |-> Zero],
     [chunk_mean |-> R(11, 1), chunk_deviation |-> Zero, short_pauses |-> 0,
      long_pauses |-> 0, stress_times |-> 5, stress_mean |-> R(4, 5),
      stress_dev |-> R(1, 5)],
     [chunk_mean |-> R(5, 2), chunk_deviation |-> R(3, 2), short_pauses |-> 2,
      long_pauses |-> 1, stress_times |-> 3, stress_mean |-> One,
      stress_dev |-> R(1, 2)]}

\* What the text analysers find: few word types and rare words; more word
\* types, wordfreq unavailable.
LanguageAnalyses ==
    {[types |-> R(5, 1), poscvamax |-> R(1, 4), logfreq |-> R(-3, 1),
      lmscore |-> R(7, 10)],
     [types |-> R(7, 1), poscvamax |-> R(1, 2), logfreq |-> R(1, 2),
      lmscore |-> R(85, 100)]}

InitFeatures ==
    /\ RaterOff
    /\ delivery_features_raw = DeliveryZero
    /\ language_features_raw = LanguageZero
    /\ normalized = <<>> /\ renormalized = <<>> /\ local_scores = <<>>
    /\ AudioIdle
    /\ repfreq = Zero /\ ipc = Zero /\ step = "none"
    /\ scorer \in {"delivery", "language"}
    /\ text \in FeatureTranscripts
    /\ n_samples \in SampleCounts
    /\ asr_confidence \in Confidences
    /\ analysis \in IF scorer = "delivery" THEN DeliveryAnalyses
                    ELSE LanguageAnalyses
    /\ scorer = "language" => asr_confidence = None
    /\ features = <<>>
    /\ at = StatementsOf(scorer)[1]
    /\ returned = None
    /\ WorkerIdle
    /\ SharedIdle
    /\ LateIdle

FeatureFrame ==
    /\ UNCHANGED <<scorer, n_samples, asr_confidence, analysis>>
    /\ UNCHANGED <<raterVars, pureVars, workerVars, sharedVars, lateVars>>

\* One statement of DeliveryScorer.calculate_all_features completes.
DeliveryStatement ==
    /\ scorer = "delivery"
    /\ at \notin {"return", "returned", "except"}
    /\ features' = DeliveryAssign(at, features, text, n_samples,
                                  asr_confidence, analysis)
    /\ at' = Following(scorer, at)
    /\ UNCHANGED returned
    /\ FeatureFrame

\* One statement of LanguageScorer.calculate_all_features completes; after
\* the split, an empty transcript returns the zero vector (lines 76-77).
LanguageStatement ==
    /\ scorer = "language"
    /\ at \notin {"return", "returned", "except"}
    /\ IF at = "split" /\ Len(text) = 0
       THEN /\ returned' = Some(ZeroVector(scorer))
            /\ at' = "returned"
            /\ UNCHANGED features
       ELSE /\ features' = LanguageAssign(at, features, text, n_samples,
                                          analysis)
            /\ at' = Following(scorer, at)
            /\ UNCHANGED returned
    /\ FeatureFrame

\* The statement at hand raises: the except clause returns.
StatementRaises ==
    /\ at \notin {"return", "returned", "except"}
    /\ returned' = Some(ExceptReturn(scorer, features))
    /\ at' = "except"
    /\ UNCHANGED features
    /\ FeatureFrame

\* return features
ReturnFeatures ==
    /\ at = "return"
    /\ returned' = Some(features)
    /\ at' = "returned"
    /\ UNCHANGED features
    /\ FeatureFrame

NextFeatures ==
    \/ DeliveryStatement
    \/ LanguageStatement
    \/ StatementRaises
    \/ ReturnFeatures

SpecFeatures == InitFeatures /\ [][NextFeatures]_vars

\* The scenario of C11: the transcript, 6.0 s of audio, confidence 0.9, and
\* the delivery features returned without an exception.
Scenario1Returned ==
    /\ scorer = "delivery"
    /\ at = "returned"
    /\ text = FriendHonesty
    /\ n_samples = 6 * sample_rate
    /\ asr_confidence = Some(R(9, 10))

\* The statement of C11 with the scenario's wpsecutt equal to rate.
SpeakingRateIs(rate) ==
    /\ (scorer = "delivery" /\ at = "returned") =>
         /\ Get(returned)["wpsecutt"] =
              IF n_samples > 0
              THEN RDiv(Int2R(Len(text)), DurationOf(n_samples)) ELSE Zero
         /\ Get(returned)["conftimeavg"] =
              IF IsNone(asr_confidence) THEN R(1, 2) ELSE Get(asr_confidence)
    /\ Scenario1Returned =>
         /\ Get(returned)["wpsecutt"] = rate
         /\ Get(returned)["conftimeavg"] = R(9, 10)

\* C11 as claimed: for the transcript "I think the most important quality
\* for a friend is honesty." with 6.0 s of audio and confidence 0.9,
\* calculate_all_features yields wpsecutt = 2.0 and conftimeavg = 0.9;
\* wpsecutt is the whitespace-split word count divided by the duration, and
\* 0 when the duration is not positive.
C11_Scenario1SpeakingRateTwo == SpeakingRateIs(R(2, 1))

\* C11 as amended: the same, with wpsecutt = 11/6 (about 1.83): the
\* transcript splits into 11 words, not 12.
C11_Scenario1SpeakingRate == SpeakingRateIs(R(11, 6))

\* C11 witness: the scenario's features have been returned, 11 words in 6 s.
C11_Witness ==
    /\ Scenario1Returned
    /\ Len(LowerSplit(text)) = 11
    /\ DurationOf(n_samples) = R(6, 1)
    /\ Get(returned)["wpsecutt"] = R(11, 6)

\* The occurrences of the six markers in a transcript: the tokens that are
\* one of the one-word markers, and the places where "you" is followed by
\* "know".
MarkerOccurrences(words) ==
    Cardinality({i \in 1..Len(words) :
                    /\ words[i].dots = 0
                    /\ words[i].base \in {"um", "uh", "er", "ah", "like"}})
    + Cardinality({i \in 1..(Len(words) - 1) :
                      /\ words[i].base = "you" /\ words[i].dots = 0
                      /\ words[i + 1].base = "know"})

\* C24: dpsec is the number of occurrences in the transcript of the markers
\* um, uh, er, ah, like and "you know" divided by the audio duration, and 0
\* when the duration is not positive; each of the six markers, the two-word
\* marker "you know" included, is counted wherever it occurs.
C24_DpsecCountsEveryMarker ==
    (scorer = "delivery" /\ at = "returned") =>
        Get(returned)["dpsec"] =
            IF n_samples > 0
            THEN RDiv(Int2R(MarkerOccurrences(LowerSplit(text))),
                      DurationOf(n_samples))
            ELSE Zero

\* C20: a feature vector is never partially populated: on every path
\* (success, empty transcript, an exception at any statement) the delivery
\* method returns exactly the 12 delivery keys and the language method
\* exactly the 6 language keys, and after an exception every key is 0.
C20_NeverPartiallyPopulated ==
    ~IsNone(returned) =>
        /\ DOMAIN Get(returned) = WeightKeysOf(scorer)
        /\ Cardinality(DOMAIN Get(returned)) =
             IF scorer = "delivery" THEN 12 ELSE 6
        /\ at = "except" => \A k \in DOMAIN Get(returned) : Get(returned)[k] = Zero
        /\ (scorer = "language" /\ Len(text) = 0) =>
             \A k \in DOMAIN Get(returned) : Get(returned)[k] = Zero

\* C20 witness: an exception was raised when some keys but not all had been
\* assigned, with non-zero values among them, and the zero vector came back.
C20_Witness ==
    /\ at = "except"
    /\ DOMAIN features # {}
    /\ DOMAIN features # WeightKeysOf(scorer)
    /\ \E k \in DOMAIN features : features[k] # Zero
    /\ ~IsNone(returned)
    /\ \A k \in WeightKeysOf(scorer) : Get(returned)[k] = Zero

-----------------------------------------------------------------------------
(* The sender worker of XunfeiRater.on_open (xunfei_rater.py, lines        *)
(* 190-292).  on_open starts run() on a thread of its own; run() reads the *)
(* audio file in chunks of frameSize bytes and sends one frame per chunk.  *)
(* A chunk is "chunk" (some bytes) or "" (fp.read at the end of the file). *)
(* ws.send raises WebSocketConnectionClosedException on a connection that  *)
(* is closed; run() does not catch it, so the thread ends there.           *)

STATUS_FIRST_FRAME == 0
STATUS_CONTINUE_FRAME == 1
STATUS_LAST_FRAME == 2

\* Lines 236-253
FirstFrame(buf) == [common |-> TRUE, cmd |-> "ssb", aus |-> 1, text |-> TRUE, status |-> 0, data |-> buf]

\* Lines 260-269
ContinueFrame(buf) == [common |-> FALSE, cmd |-> "auw", aus |-> 2, text |-> FALSE, status |-> 1, data |-> buf]

\* Lines 274-283
LastFrame(buf) == [common |-> FALSE, cmd |-> "auw", aus |-> 4, text |-> FALSE, status |-> 2, data |-> buf]

\* Line 208: fp.read(frameSize) with n reads of data left.
ReadChunk(n) == IF n > 0 THEN "chunk" ELSE ""

\* Lines 210-211: status once the chunk is known.
StatusFor(st, buf) == IF buf = "" THEN STATUS_LAST_FRAME ELSE st

\* Lines 214, 259, 273: the frame built for the chunk under status st.
FrameFor(st, buf) ==
    CASE st = STATUS_FIRST_FRAME -> FirstFrame(buf)
      [] st = STATUS_CONTINUE_FRAME -> ContinueFrame(buf)
      [] st = STATUS_LAST_FRAME -> LastFrame(buf)

\* Line 256: status after the frame has been sent.
StatusAfter(st) == IF st = STATUS_FIRST_FRAME THEN STATUS_CONTINUE_FRAME ELSE st

\* A loop that goes on after the last frame.
WorkerAfter_NoBreak(st) == "running"

\* Lines 285-288: break after the last frame, sleep and loop otherwise.
WorkerAfter(st) == IF st = STATUS_LAST_FRAME THEN "finished" ELSE "running"

\* Bound of the audio source: reads that return data.
MaxChunks == 2

\* The request whose exchange is followed: a typical answer.
InitExchange ==
    /\ pc = "idle"
    /\ audio_exists \in BOOLEAN
    /\ audio_loadable \in BOOLEAN
    /\ audio_exists = FALSE => audio_loadable = FALSE
    /\ xunfei_enabled \in BOOLEAN
    /\ delivery_features_raw = DeliveryTypical
    /\ language_features_raw = LanguageGood
    /\ xunfei_result = None
    /\ score_result = None
    /\ ws = "idle"
    /\ result = None
    /\ error_msg = None
    /\ inbound = <<>>
    /\ PureIdle
    /\ FeatIdle
    /\ SharedIdle
    /\ LateIdle
    /\ worker = "unstarted"
    /\ send_status = STATUS_FIRST_FRAME
    /\ source \in 0..MaxChunks
    /\ sent = <<>>

\* Lines 191-205 and 292: the thread started by on_open begins to run; it
\* opens the file and skips the header.
WorkerStart ==
    /\ worker = "unstarted"
    /\ Count(inbound, "open") > 0
    /\ worker' = "running"
    /\ send_status' = STATUS_FIRST_FRAME
    /\ UNCHANGED <<source, sent>>
    /\ UNCHANGED <<raterVars, pureVars, featVars, sharedVars, lateVars>>

\* Lines 207-288: one turn of the loop: read a chunk, settle the status,
\* send the frame.
WorkerFrame ==
    /\ worker = "running"
    /\ LET buf == ReadChunk(source)
           st == StatusFor(send_status, buf)
       IN  /\ source' = IF source > 0 THEN source - 1 ELSE 0
           /\ IF ws = "open"
              THEN /\ sent' = Append(sent, FrameFor(st, buf))
                   /\ send_status' = StatusAfter(st)
                   /\ worker' = WorkerAfter(st)
              ELSE \* ws.send raises
                   /\ worker' = "died"
                   /\ send_status' = st
                   /\ UNCHANGED sent
    /\ UNCHANGED <<raterVars, pureVars, featVars, sharedVars, lateVars>>

NextExchange ==
    \/ ScoreBegin
    \/ OnOpen
    \/ OnError
    \/ OnMessage
    \/ OnClose
    \/ RunForeverReturns
    \/ LocalScoreAndFuse
    \/ WorkerStart
    \/ WorkerFrame

SpecExchange == InitExchange /\ [][NextExchange]_vars

\* The steps of the exchange are taken when they stay possible: the calling
\* thread and the sender thread are scheduled, a connection attempt is
\* answered, and run_forever returns once the connection is closed.  What
\* the peer sends, and whether it sends anything, is not constrained: a
\* receive callback runs in the step in which its event arrives.
SpecExchangeFair ==
    /\ InitExchange
    /\ [][NextExchange]_vars
    /\ WF_vars(ScoreBegin)
    /\ WF_vars(OnOpen)
    /\ WF_vars(WorkerStart)
    /\ WF_vars(WorkerFrame)
    /\ WF_vars(RunForeverReturns)

\* Positions of the frames of a given stream-status among those sent.
FramesOf(st) == {i \in 1..Len(sent) : sent[i].status = st}

\* C12: on every connection open, for every audio source (also one with no
\* payload bytes after the header), the first frame the sender transmits is
\* the start frame: stream-status 0 with common.app_id, the full business
\* block and the evaluation text; no status-1 or status-2 frame is sent
\* before it.
C12_FirstFrameIsStartFrame ==
    /\ sent # <<>> =>
         /\ sent[1].status = STATUS_FIRST_FRAME
         /\ sent[1].common /\ sent[1].cmd = "ssb" /\ sent[1].text
    /\ \A i \in FramesOf(STATUS_CONTINUE_FRAME) \cup FramesOf(STATUS_LAST_FRAME) :
         \E j \in FramesOf(STATUS_FIRST_FRAME) : j < i

\* Exactly one status-2 frame has been sent and it is the last frame sent.
OneFinalFrameLast == FramesOf(STATUS_LAST_FRAME) = {Len(sent)} /\ sent # <<>>

\* C13 as claimed: once the audio source is exhausted the sender transmits
\* exactly one status-2 frame, it is the last frame sent, and it goes out in
\* every execution, also when the receive side has recorded an error or
\* closed the connection while frames were still being sent.
C13_FinalFrameAlwaysSent ==
    /\ Cardinality(FramesOf(STATUS_LAST_FRAME)) <= 1
    /\ FramesOf(STATUS_LAST_FRAME) \subseteq {Len(sent)}
    /\ worker \in {"finished", "died"} => OneFinalFrameLast

\* C13 as amended: at most one status-2 frame is sent and nothing follows
\* it; the sender ends its loop normally exactly when that frame has gone
\* out, which it does whenever the connection is still open when the source
\* is exhausted; when the connection has closed before, ws.send raises in
\* the sender thread and no status-2 frame is transmitted.
C13_FinalFrameSentWhileOpen ==
    /\ Cardinality(FramesOf(STATUS_LAST_FRAME)) <= 1
    /\ FramesOf(STATUS_LAST_FRAME) \subseteq {Len(sent)}
    /\ worker = "finished" <=> OneFinalFrameLast
    /\ worker = "died" => ws = "closed" /\ FramesOf(STATUS_LAST_FRAME) = {}

\* C13 witness: a source of two chunks has been sent as frames of status 0,
\* 1 and 2, the last one with an empty chunk, and the sender has finished.
C13_Witness ==
    /\ worker = "finished"
    /\ Len(sent) = 3
    /\ sent[1].status = 0 /\ sent[2].status = 1 /\ sent[3].status = 2
    /\ sent[3].data = ""

\* The peer has sent as many intermediate messages as the model follows.
\* The two formulas below let a run end there, so that a run refuting them
\* is one in which the peer could still send and does not.
InterimBoundReached == Count(inbound, "interim") >= MaxInterim

\* C16: XunfeiRater.score returns only after the connection has closed, and
\* every call eventually returns, for every behaviour of the remote peer,
\* also one that accepts all frames and never sends a final-status message,
\* an error or a close.
C16_ScoreAlwaysReturns ==
    /\ [](xunfei_enabled /\ pc \in {"local", "done"} => ws = "closed")
    /\ (pc = "remote") ~> (pc # "remote" \/ InterimBoundReached)

\* C17: after transmitting the final (stream-status 2) frame the sender
\* worker closes its own send path of the connection, whether or not the
\* receive side has seen a final-status or error message.
C17_SenderClosesAfterFinalFrame == (worker = "finished") ~> (ws = "closed" \/ InterimBoundReached)

-----------------------------------------------------------------------------
(* Claims about the failures of one assessment request (specification Spec) *)

\* Score has returned from the remote exchange (or never entered it).
RemoteOver == pc \in {"local", "done", "raised"}

\* C14: an inbound message whose code is not 0 fails the exchange: the
\* server-supplied message is stored as the error, the connection is closed
\* by the same handler invocation, no inbound event is handled after it (so
\* none can complete the exchange), and XunfeiRater.score returns no result.
C14_ErrorCodeFailsExchange ==
    Count(inbound, "code") > 0 =>
        /\ ws = "closed"
        /\ inbound[Len(inbound)] = "code"
        /\ Count(inbound, "final") = 0
        /\ ~IsNone(error_msg) /\ Get(error_msg) \in ServerMessages
        /\ IsNone(result)
        /\ RemoteOver => IsNone(xunfei_result)

\* C14 witness: after an intermediate message the server sent a non-zero
\* code with an empty message text, and the request has been scored.
C14_Witness ==
    /\ pc = "done"
    /\ Count(inbound, "code") = 1
    /\ Count(inbound, "interim") > 0
    /\ error_msg = Some("")
    /\ IsNone(xunfei_result)

\* A result is returned only from an exchange that handled a final message
\* and recorded no error of any kind.
ResultOnlyFromCleanExchange ==
    (RemoteOver /\ ~IsNone(xunfei_result)) =>
        /\ Count(inbound, "final") = 1
        /\ inbound[Len(inbound)] = "final"
        /\ Count(inbound, "error") = 0
        /\ Count(inbound, "code") = 0
        /\ Count(inbound, "exception") = 0
        /\ ~RemoteRejected
        /\ IsNone(error_msg)
        /\ xunfei_result = result

\* Handling a code-0 message whose status is not 2 changes nothing.
InterimChangesNothing ==
    inbound' = Append(inbound, "interim") =>
        /\ ws = "open" /\ ws' = "open"
        /\ result' = result
        /\ error_msg' = error_msg

\* C15: no score is published from an aborted exchange: XunfeiRater.score
\* returns a result only if a code-0 message with stream-status 2 was handled
\* and no error (transport error, non-zero code, handler exception,
\* rejection) was recorded during the exchange; code-0 messages with another
\* status leave result and error unchanged and the connection open.
C15_NoScoreFromAbortedExchange ==
    /\ []ResultOnlyFromCleanExchange
    /\ [][InterimChangesNothing]_vars

\* C15 witness: a result has been returned from an exchange in which
\* intermediate messages came before the final one.
C15_Witness ==
    /\ pc = "done"
    /\ ~IsNone(xunfei_result)
    /\ Count(inbound, "interim") > 0
    /\ Count(inbound, "final") = 1

\* C19: SpeechRater.score raises exactly when the audio file is missing or
\* cannot be read; every other failure (zero feature vectors after a
\* feature-stage exception, transport error, rejection, malformed remote
\* JSON or XML) still ends with a ScoreResult, and a missing file raises
\* before any remote session is opened.
C19_RaisesOnlyOnInputError ==
    /\ pc = "raised" => (~audio_exists \/ ~audio_loadable)
    /\ pc = "done" => (audio_exists /\ audio_loadable)
    /\ IsNone(score_result) <=> pc # "done"
    /\ ~audio_exists =>
         /\ pc \in {"idle", "raised"}
         /\ ws = "idle" /\ inbound = <<>>
         /\ IsNone(result) /\ IsNone(error_msg)

\* C19 witness: the feature stage failed (zero delivery vector), the remote
\* exchange ended in a handler exception on a malformed message, and a
\* ScoreResult has been returned all the same.
C19_Witness ==
    /\ pc = "done"
    /\ delivery_features_raw = DeliveryZero
    /\ Count(inbound, "exception") > 0
    /\ ~IsNone(error_msg)
    /\ ~IsNone(score_result)

\* The elements of a payload that expose a total_score attribute.
WithTotal(xml) ==
    {i \in 1..Len(xml.nodes) : "total_score" \in DOMAIN xml.nodes[i].attrib}

TotalFromFirstElement(r, xml) ==
    /\ xml.well_formed
    /\ \E i \in WithTotal(xml) :
          /\ \A j \in WithTotal(xml) : i <= j
          /\ r["total_score"] = xml.nodes[i].attrib["total_score"].val
    /\ r["converted_score"] = RMul(r["total_score"], R(8, 10))

NothingFromRemote ==
    /\ Published.raw_score =
         LocalFinal(delivery_features_raw, language_features_raw)
    /\ Published.delivery_score =
         RMul(LocalDelivery(delivery_features_raw), R(4, 1))
    /\ Published.language_score =
         RMul(LocalLanguage(language_features_raw), R(4, 1))

ResultShape(r) ==
    /\ "raw_xml" \in DOMAIN r
    /\ ("converted_score" \in DOMAIN r) <=> ("total_score" \in DOMAIN r)
    /\ "total_score" \in DOMAIN r => TotalFromFirstElement(r, r["raw_xml"])
    /\ (~r["raw_xml"].well_formed \/ WithTotal(r["raw_xml"]) = {}) =>
          "total_score" \notin DOMAIN r
    /\ ("total_score" \notin DOMAIN r /\ ~IsNone(score_result)) =>
          NothingFromRemote

\* C28: every result that XunfeiRater.score returns (other than None) holds
\* raw_xml; it holds converted_score exactly when it holds total_score, and
\* then converted_score = total_score x 0.8, total_score being that of the
\* first element, in document order, with a total_score attribute; a payload
\* that is not well-formed XML or has no total_score gives a result without
\* total_score, and then the published scores are the local ones.
C28_ReturnedResultShape ==
    ~IsNone(xunfei_result) => ResultShape(Get(xunfei_result))

\* A result taken from a payload of two elements with different totals has
\* been returned and fused.
C28_Witness ==
    /\ ~IsNone(xunfei_result)
    /\ ~IsNone(score_result)
    /\ "total_score" \in DOMAIN Get(xunfei_result)
    /\ Cardinality(WithTotal(Get(xunfei_result)["raw_xml"])) = 2
    /\ \E i, j \in WithTotal(Get(xunfei_result)["raw_xml"]) :
          Get(xunfei_result)["raw_xml"].nodes[i].attrib["total_score"]
            # Get(xunfei_result)["raw_xml"].nodes[j].attrib["total_score"]

\* C29: the final_score of the score breakdown handed to the feedback
\* generator equals the raw_score of the returned ScoreResult in every case:
\* local only, fused with a remote total, fused with remote dimensions.
C29_FeedbackSeesPublishedScore ==
    ~IsNone(score_result) => Published.breakdown_final = Published.raw_score

\* C26: the delivery score of the all-zero vector, to which a failed
\* feature computation degrades, is the lowest delivery score there is: no
\* computed feature vector scores below it.
C26_DegradedScoreIsLowest ==
    ~IsNone(score_result) =>
        RLe(LocalDelivery(DeliveryZero),
            LocalDelivery(Published.delivery_features))

-----------------------------------------------------------------------------
(* Two requests through one SpeechRater, hence through one XunfeiRater      *)
(* (specification SpecShared).  SpeechRater.__init__ creates the one        *)
(* XunfeiRater (speech_rater.py line 97); XunfeiRater.score keeps the       *)
(* request's arguments and outcome in fields of that object                 *)
(* (xunfei_rater.py lines 82-85), which the callbacks and the sender worker *)
(* of every connection read and write.                                      *)

Requests == {1, 2}

\* The arguments of request r.
AudioPathOf(r) == IF r = 1 THEN "answer1.wav" ELSE "answer2.wav"
TextOf(r) == IF r = 1 THEN "topic one" ELSE "topic two"

\* The final payload the server sends for the audio of request r.
PayloadOf(r) == [well_formed |-> TRUE, nodes |-> <<Element(FALSE, "total_score" :> Num(2 + r, 1))>>]

\* The transport error of request r's connection.
TransportErrorOf(r) == IF r = 1 THEN "Connection refused" ELSE "Connection to remote host was lost."

\* A request that has not called score yet.
NotCalled == [pc |-> "idle", sent_audio |-> None, sent_text |-> None, outcome |-> "none", returned |-> None]

raterRest == <<pc, audio_exists, audio_loadable, xunfei_enabled, delivery_features_raw, language_features_raw, xunfei_result, score_result, ws, inbound>>

InitShared ==
    /\ RaterOff
    /\ delivery_features_raw = DeliveryZero
    /\ language_features_raw = LanguageZero
    /\ PureIdle
    /\ FeatIdle
    /\ WorkerIdle
    /\ LateIdle
    /\ calls = [r \in Requests |-> NotCalled]
    /\ self_audio_path = None
    /\ self_text = None

SharedFrame ==
    UNCHANGED <<raterRest, pureVars, featVars, workerVars, lateVars>>

\* A call that keeps what the fields held.
ResetAtCall_Kept(old) == old

\* Lines 82-83: self.result = None, self.error_msg = None
ResetAtCall(old) == None

\* XunfeiRater.score lines 82-96 for request r: the fields are reset and
\* set, the connection is created and run_forever is entered.
CallScore(r) ==
    /\ calls[r].pc = "idle"
    /\ result' = ResetAtCall(result)
    /\ error_msg' = ResetAtCall(error_msg)
    /\ self_audio_path' = Some(AudioPathOf(r))
    /\ self_text' = Some(TextOf(r))
    /\ calls' = [calls EXCEPT ![r].pc = "running"]
    /\ SharedFrame

\* on_open lines 197 and 216 on request r's connection: the sender worker
\* opens self.audio_path and sends self.text in its first frame.
SenderReads(r) ==
    /\ calls[r].pc = "running"
    /\ IsNone(calls[r].sent_audio)
    /\ calls' = [calls EXCEPT ![r].sent_audio = self_audio_path,
                              ![r].sent_text = self_text]
    /\ UNCHANGED <<result, error_msg, self_audio_path, self_text>>
    /\ SharedFrame

\* on_message lines 117-176 on request r's connection: the final message
\* for the audio that was sent on it.
FinalMessage(r) ==
    /\ calls[r].pc = "running"
    /\ ~IsNone(calls[r].sent_audio)
    /\ result' = Some(ParsedResult(PayloadOf(r)))
    /\ calls' = [calls EXCEPT ![r].pc = "closed", ![r].outcome = "final"]
    /\ UNCHANGED <<error_msg, self_audio_path, self_text>>
    /\ SharedFrame

\* on_error lines 183-185 on request r's connection.
TransportError(r) ==
    /\ calls[r].pc = "running"
    /\ error_msg' = OnErrorRecord(error_msg, TransportErrorOf(r))
    /\ calls' = [calls EXCEPT ![r].pc = "closed", ![r].outcome = "error"]
    /\ UNCHANGED <<result, self_audio_path, self_text>>
    /\ SharedFrame

\* XunfeiRater.score lines 98-102 for request r.
ScoreReturns(r) ==
    /\ calls[r].pc = "closed"
    /\ calls' = [calls EXCEPT ![r].pc = "returned",
                              ![r].returned = ScoreReturn(error_msg, result)]
    /\ UNCHANGED <<result, error_msg, self_audio_path, self_text>>
    /\ SharedFrame

NextShared ==
    \E r \in Requests :
        \/ CallScore(r)
        \/ SenderReads(r)
        \/ FinalMessage(r)
        \/ TransportError(r)
        \/ ScoreReturns(r)

SpecShared == InitShared /\ [][NextShared]_vars

\* What request r gets back when only its own exchange counts.
OwnReturn(r) ==
    IF calls[r].outcome = "final" THEN Some(ParsedResult(PayloadOf(r)))
    ELSE None

\* C18: requests share no mutable state: of two score() requests issued
\* concurrently through the same SpeechRater, each sends its own audio
\* source and evaluation text and gets back the result (or the failure) of
\* its own exchange; neither is overwritten or observed by the other.
C18_RequestsShareNoState ==
    \A r \in Requests :
        /\ ~IsNone(calls[r].sent_audio) =>
             /\ calls[r].sent_audio = Some(AudioPathOf(r))
             /\ calls[r].sent_text = Some(TextOf(r))
        /\ calls[r].pc = "returned" => calls[r].returned = OwnReturn(r)

-----------------------------------------------------------------------------
(* Calls of score() one after the other on one XunfeiRater: xunfei_rater.py *)
(* lines 71-102 (specification SpecSequential).  A call starts when no      *)
(* other call is inside score(); the callbacks of a connection run inside   *)
(* run_forever, the sender worker of a call is a thread of its own and may  *)
(* still be running when the next call starts.                              *)

\* The final payload of request r when the server rejects its audio.
RejectedPayloadOf(r) ==
    [well_formed |-> TRUE,
     nodes |-> <<Element(TRUE, "total_score" :> Num(0, 1))>>]

\* score() is called for request r after every earlier call has returned.
SequentialCall(r) ==
    /\ \A q \in Requests \ {r} : calls[q].pc \in {"idle", "returned"}
    /\ CallScore(r)

\* on_message lines 117-176 on request r's connection: a final message
\* whose payload carries is_rejected="true".
RejectedMessage(r) ==
    /\ calls[r].pc = "running"
    /\ ~IsNone(calls[r].sent_audio)
    /\ result' = Some(ParsedResult(RejectedPayloadOf(r)))
    /\ error_msg' = RejectionRecord(RejectedPayloadOf(r), error_msg)
    /\ calls' = [calls EXCEPT ![r].pc = "closed", ![r].outcome = "rejected"]
    /\ UNCHANGED <<self_audio_path, self_text>>
    /\ SharedFrame

\* on_close line 188 on request r's connection: the peer closes it and
\* nothing is recorded.
PeerCloses(r) ==
    /\ calls[r].pc = "running"
    /\ calls' = [calls EXCEPT ![r].pc = "closed", ![r].outcome = "closed"]
    /\ UNCHANGED <<result, error_msg, self_audio_path, self_text>>
    /\ SharedFrame

\* on_open lines 197 and 216: the sender worker of request r gets to run
\* only after its connection is closed; it opens self.audio_path as it is
\* then, and its ws.send raises in the worker thread.
LateSender(r) ==
    /\ calls[r].pc \in {"closed", "returned"}
    /\ IsNone(calls[r].sent_audio)
    /\ self_audio_path # None
    /\ calls' = [calls EXCEPT ![r].sent_audio = self_audio_path,
                              ![r].sent_text = self_text]
    /\ UNCHANGED <<result, error_msg, self_audio_path, self_text>>
    /\ SharedFrame

NextSequential ==
    \E r \in Requests :
        \/ SequentialCall(r)
        \/ SenderReads(r)
        \/ FinalMessage(r)
        \/ RejectedMessage(r)
        \/ TransportError(r)
        \/ PeerCloses(r)
        \/ LateSender(r)
        \/ ScoreReturns(r)

SpecSequential == InitShared /\ [][NextSequential]_vars

\* What the exchange of request r alone gives: the parsed payload of its
\* final message, and None after a rejection, a transport error or a close
\* without a final message.
OwnExchangeGives(r) ==
    IF calls[r].outcome = "final" THEN Some(ParsedResult(PayloadOf(r)))
    ELSE None

\* C30: across sequential score() calls on one XunfeiRater, what a call
\* returns depends only on its own exchange: result and error_msg are reset
\* when the call starts, so a result or an error recorded by an earlier call
\* is never returned by a later call and never suppresses its result.
C30_ReturnDependsOnOwnExchange ==
    \A r \in Requests :
        calls[r].pc = "returned" => calls[r].returned = OwnExchangeGives(r)

\* A call whose exchange was rejected (result and error_msg both recorded)
\* has returned None, and the next call has returned its own result.
C30_Witness ==
    \E r, q \in Requests :
        /\ calls[r].pc = "returned" /\ calls[r].outcome = "rejected"
        /\ calls[r].returned = None
        /\ calls[q].pc = "returned" /\ calls[q].outcome = "final"
        /\ calls[q].returned = Some(ParsedResult(PayloadOf(q)))
        /\ result = calls[q].returned

-----------------------------------------------------------------------------
(* The sender worker reading the audio file byte by byte: xunfei_rater.py, *)
(* lines 190-292 (specification SpecSend).  A file is the sequence of its  *)
(* bytes; a base64 text is the sequence of its characters, each given by   *)
(* its index in the base64 alphabet, and the padding character "=" by      *)
(* PadChar.                                                                *)

\* Line 192
frameSize == 1280

\* Line 200
WavHeaderSize == 44

PadChar == 64

Least(a, b) == IF a < b THEN a ELSE b

ByteAt(b, i) == IF i <= Len(b) THEN b[i] ELSE 0

\* The 24 bits of the group of three bytes that starts at byte i.
GroupBits(b, i) == b[i] * 65536 + ByteAt(b, i + 1) * 256 + ByteAt(b, i + 2)

\* base64.b64encode(buf): every group of three bytes gives four characters
\* of six bits each; a last group of one or two bytes is padded.
b64encode(b) ==
    [j \in 1..(4 * ((Len(b) + 2) \div 3)) |->
        LET first == 3 * ((j - 1) \div 4) + 1
            k == (j - 1) % 4
        IN  IF k >= 2 /\ first + k - 1 > Len(b) THEN PadChar
            ELSE (GroupBits(b, first) \div (64 ^ (3 - k))) % 64]

SextetAt(t, j) == IF t[j] = PadChar THEN 0 ELSE t[j]

\* The 24 bits of the group of four characters that starts at character j.
TextBits(t, j) ==
    SextetAt(t, j) * 262144 + SextetAt(t, j + 1) * 4096
        + SextetAt(t, j + 2) * 64 + SextetAt(t, j + 3)

Padding(t) == Cardinality({j \in 1..Len(t) : t[j] = PadChar})

\* base64.b64decode(text), what the receiver of a frame does with data.data.
b64decode(t) ==
    [i \in 1..(3 * (Len(t) \div 4) - Padding(t)) |->
        (TextBits(t, 4 * ((i - 1) \div 3) + 1)
            \div (256 ^ (2 - ((i - 1) % 3)))) % 256]

\* A worker that does not skip the header.
HeaderSkip_None(path_is_wav, size) == 0

\* Lines 198-205: the position of fp after the header has been skipped;
\* fp.read(44) stops at the end of a shorter file.
HeaderSkip(path_is_wav, size) ==
    IF path_is_wav THEN Least(WavHeaderSize, size) ELSE 0

\* Line 208: fp.read(frameSize) at position pos.
ReadFrame(bytes, pos) ==
    SubSeq(bytes, pos + 1, Least(pos + frameSize, Len(bytes)))

\* Lines 210-211: status once the chunk is known.
StatusForBytes(st, buf) == IF buf = <<>> THEN STATUS_LAST_FRAME ELSE st

\* The sizes of the files followed: empty, shorter than a header, a bare
\* header, and headers followed by up to two frames and a part of a frame.
FileSizes ==
    {0, 30, WavHeaderSize, WavHeaderSize + 1, WavHeaderSize + 3,
     WavHeaderSize + frameSize, WavHeaderSize + frameSize + 1,
     WavHeaderSize + 2 * frameSize + 50}

\* The files followed: the byte at offset i is (m * i) % 251, so that no two
\* frames of one file carry the same bytes.
SourceFiles ==
    {[i \in 1..n |-> (m * (i - 1)) % 251] : n \in FileSizes, m \in {1, 2}}

InitSend ==
    /\ pc = "remote"
    /\ audio_exists = TRUE
    /\ audio_loadable = TRUE
    /\ xunfei_enabled = TRUE
    /\ delivery_features_raw = DeliveryZero
    /\ language_features_raw = LanguageZero
    /\ xunfei_result = None
    /\ score_result = None
    /\ ws = "open"
    /\ result = None
    /\ error_msg = None
    /\ inbound = <<"open">>
    /\ PureIdle
    /\ FeatIdle
    /\ SharedIdle
    /\ ChunkIdle
    /\ worker = "unstarted"
    /\ send_status = STATUS_FIRST_FRAME
    /\ source = 0
    /\ sent = <<>>
    /\ audio_file \in [wav : BOOLEAN, bytes : SourceFiles]
    /\ fp = 0

SendFrame ==
    UNCHANGED <<pc, audio_exists, audio_loadable, xunfei_enabled,
                delivery_features_raw, language_features_raw, xunfei_result,
                score_result, result, error_msg, inbound, pureVars, featVars,
                sharedVars, chunkVars, source, audio_file>>

\* Lines 191-205: run() opens the file and skips the header of a .wav file.
RunOpensFile ==
    /\ worker = "unstarted"
    /\ worker' = "running"
    /\ send_status' = STATUS_FIRST_FRAME
    /\ fp' = HeaderSkip(audio_file.wav, Len(audio_file.bytes))
    /\ UNCHANGED <<ws, sent>>
    /\ SendFrame

\* Lines 207-288: one turn of the loop: read up to frameSize bytes, settle
\* the status, send the frame with the bytes in base64.
RunSendsFrame ==
    /\ worker = "running"
    /\ LET buf == ReadFrame(audio_file.bytes, fp)
           st == StatusForBytes(send_status, buf)
       IN  /\ fp' = fp + Len(buf)
           /\ IF ws = "open"
              THEN /\ sent' = Append(sent, FrameFor(st, b64encode(buf)))
                   /\ send_status' = StatusAfter(st)
                   /\ worker' = WorkerAfter(st)
              ELSE \* ws.send raises
                   /\ worker' = "died"
                   /\ send_status' = st
                   /\ UNCHANGED sent
    /\ UNCHANGED ws
    /\ SendFrame

\* The receive side closes the connection (lines 111, 176, 180) or the peer
\* does, while the worker may still be sending.
ConnectionCloses ==
    /\ ws = "open"
    /\ ws' = "closed"
    /\ UNCHANGED <<worker, send_status, sent, fp>>
    /\ SendFrame

NextSend ==
    \/ RunOpensFile
    \/ RunSendsFrame
    \/ ConnectionCloses

SpecSend == InitSend /\ [][NextSend]_vars

\* The decoded payloads of the frames i.. of q, one after the other.
RECURSIVE DecodedFrom(_, _)
DecodedFrom(q, i) ==
    IF i > Len(q) THEN <<>>
    ELSE b64decode(q[i].data) \o DecodedFrom(q, i + 1)

\* C27: for a source whose path ends in .wav, the decoded payloads of the
\* frames of an exchange that was not interrupted, put one after the other
\* in the order sent, are the bytes of the file from offset 44 to its end:
\* no byte of the header is sent, no audio byte is dropped, doubled or moved,
\* and no payload is longer than 1280 bytes.
C27_PayloadsAreTheAudioBytes ==
    (audio_file # <<>> /\ audio_file.wav /\ worker = "finished") =>
        /\ DecodedFrom(sent, 1) =
             SubSeq(audio_file.bytes, 45, Len(audio_file.bytes))
        /\ \A i \in 1..Len(sent) : Len(b64decode(sent[i].data)) <= 1280

\* A .wav file of a header, two full frames and a part of a frame has been
\* sent to its end.
C27_Witness ==
    /\ audio_file # <<>>
    /\ audio_file.wav
    /\ worker = "finished"
    /\ Len(audio_file.bytes) > WavHeaderSize + 2 * frameSize
    /\ Len(sent) = 4
    /\ Len(b64decode(sent[3].data)) = 50

=============================================================================
